---- MODULE Spec2Model ----
(***************************************************************************)
(* A model of logterm: the log-line parser and display-line builder        *)
(* (server/src/parser.rs), the tailing session (backend/src/connection.rs) *)
(* and the caching query session (backend/src/main.rs).                    *)
(*                                                                         *)
(* Text is a sequence of grapheme clusters; a grapheme cluster is a TLA+   *)
(* string.  "U+4E16" stands for one East Asian wide cluster (3 bytes of    *)
(* UTF-8, 2 display cells); every other cluster used here is one byte and  *)
(* one cell.  "LF" and "CR" are the line feed and the carriage return.     *)
(***************************************************************************)
EXTENDS Integers, Sequences, FiniteSets, TLC

\* One call of parse_log_line: where it stands (p_pc), its arguments (p_in),
\* its builder `ret` (p_b), the spans it has passed to push_span (p_done) and
\* has still to pass (p_todo), the active invocations of push_span (p_stack:
\* for each, outermost first, the recursive calls it has still to make), and
\* what it returned (p_ret).
VARIABLES p_pc, p_in, p_b, p_done, p_todo, p_stack, p_ret

\* The log file: whether it exists (fs_exists), its bytes (fs_data) and how
\* often it has been truncated (fs_truncs).
VARIABLES fs_exists, fs_data, fs_truncs

\* The tailing session of connection.rs.
\*   ctx        the Context of handle_ws, an Option (None: no tail attached)
\*   chan       the watch channel of ctx: its value and whether the receiver
\*              has yet to see it
\*   w_modify   Modify(Data) events the watcher's callback has yet to run for
\*   w_remove   a Remove event the watcher's callback has yet to run for
\*   inbox      messages the client has sent and the session has yet to receive
\*   rx_ended   the client has closed: the inbound stream ends after inbox
\*   c_sent     how many messages the client has sent
\*   out        the messages the session has sent, in order
\*   s_pc       where handle_ws stands: "select"; "watching" (inside
\*              Context::new, after the file's metadata and before the
\*              watch); "sending" (at a tx.send(..).await); inside read_to
\*              "opening"
\*              (at File::open), "opened" (at seek), "filling" (at a read
\*              of read_to_string), "reading" and "parsing" (in its loop);
\*              "closed" (it returned Err), "dead" (the process died)
\*   s_err      the Err handle_ws returned, and the request that raised it
\*   t_rest     read_to: the part of `contents` not yet split into lines
\*   t_line     read_to: the raw segment being parsed
\*   t_lines    read_to: `lines`, the rows collected so far
\*   t_seen     the lines ctx has passed to parse_log_line, in order
\*   t_raw      the bytes, terminators included, of the segments ctx consumed
\*   t_by       for each message of `out`: how many contexts the session had
\*              made when the message was computed (the context it is from)
\*   t_rd       read_to: how many contexts the session had made when the
\*              read began
\*   t_fd       read_to: the file it has open: the offset of the next read,
\*              and whether the bytes read through it so far are valid
\*              UTF-8
\*   t_req      handle_ws_message: the request being handled and the length
\*              Context::new got from the file's metadata
\*   t_send     the frame whose tx.send(..) the session awaits, and how
\*              many contexts the session had made when it was computed
\*   t_quiet    the file has not been modified since the session sent its
\*              last response
VARIABLES ctx, chan, w_modify, w_remove, inbox, rx_ended, c_sent, out, s_pc, s_err,
          t_rest, t_line, t_lines, t_seen, t_raw, t_by, t_rd, t_fd, t_req, t_send, t_quiet

\* The query session of main.rs.
\*   q_last     `last` of handle_ws: the cached query and its full response,
\*              an Option
\*   q_inbox    messages the client has sent and the session has yet to receive
\*   q_ended    the client has closed: the inbound stream ends after q_inbox
\*   q_sent     how many messages the client has sent
\*   q_out      the messages the session has sent, in order
\*   q_pc       where handle_ws stands: "recv", "scan" and "parsing" (inside
\*              query), "sending" (at a tx.send(..).await), "returned" (it returned Ok), "closed" (it returned
\*              Err), "panicked" (its task panicked), "dead" (the process died)
\*   q_err      the Err handle_ws returned, and the request that raised it
\*   q_req      the request query() runs for
\*   q_rest     query: the text its BufReader has read from the file and
\*              has not yet given out as a line
\*   q_off      query: the offset in the file of the reader's next read
\*   q_seen     query: the lines it has handed to parse_log_line, in order
\*   q_quiet    the file has not been modified since query opened it
\*   q_lln      query: the index of the next line
\*   q_rows     query: `display_lines`, the rows collected so far
\*   q_total    query: `total_display_lines`
\*   q_hist     for each request answered, in order: the request, whether
\*              query() scanned the file for it, the total it was told, and
\*              the file's content when the session took the request
\*   q_send     the frame whose tx.send(..) the session awaits, and the
\*              entry of q_hist that goes with it
VARIABLES q_last, q_inbox, q_ended, q_sent, q_out, q_pc, q_err, q_req, q_rest,
          q_off, q_seen, q_quiet, q_lln, q_rows, q_total, q_hist, q_send

varsP == <<p_pc, p_in, p_b, p_done, p_todo, p_stack, p_ret>>
varsF == <<fs_exists, fs_data, fs_truncs>>
varsT == <<ctx, chan, w_modify, w_remove, inbox, rx_ended, c_sent, out, s_pc, s_err,
           t_rest, t_line, t_lines, t_seen, t_raw, t_by, t_rd, t_fd, t_req, t_send, t_quiet>>
varsQ == <<q_last, q_inbox, q_ended, q_sent, q_out, q_pc, q_err, q_req, q_rest,
           q_off, q_seen, q_quiet, q_lln, q_rows, q_total, q_hist, q_send>>
vars == <<varsP, varsF, varsT, varsQ>>

\* ------------------------------------------------------------------ bounds
\* Longest enumerated free-text line, in grapheme clusters.
MaxLen == 4
\* Largest enumerated column count (0 is enumerated too).
MaxCols == 4
\* Frames the call stack holds before the process dies of stack overflow.
\* It only has to exceed the longest line of the model.
StackLimit == 70
\* Most characters the log file grows to.
MaxFile == 4
\* Most truncations of the log file.
MaxTruncs == 1
\* Most lines a writer of whole lines appends.
MaxLines == 3
\* Most messages the client sends on one connection.
MaxMsgs == 2
\* Largest row index a query's range names.
MaxRow == 3
\* Most file events waiting for the watcher's callback (more are merged).
MaxEvents == 1

\* ----------------------------------------------------------------- helpers
Min(a, b) == IF a < b THEN a ELSE b
Max(a, b) == IF a < b THEN b ELSE a
Take(s, n) == SubSeq(s, 1, Min(n, Len(s)))
Drop(s, n) == SubSeq(s, n + 1, Len(s))

RECURSIVE Concat(_)
\* The concatenation of a sequence of sequences.
Concat(ss) == IF ss = <<>> THEN <<>> ELSE Head(ss) \o Concat(Tail(ss))

RECURSIVE SeqsUpTo(_, _)
\* Every sequence over S of length at most n.
SeqsUpTo(S, n) ==
  IF n = 0 THEN {<<>>}
  ELSE LET shorter == SeqsUpTo(S, n - 1)
       IN shorter \cup {Append(s, x) : s \in {t \in shorter : Len(t) = n - 1}, x \in S}

\* --------------------------------------------------------------- graphemes
Wide == "U+4E16"

\* unicode_width: display cells of one grapheme cluster.
GlyphWidth(g) == IF g = Wide THEN 2 ELSE 1

\* UTF-8 bytes of one grapheme cluster.
GlyphBytes(g) == IF g = Wide THEN 3 ELSE 1

RECURSIVE width(_)
\* UnicodeWidthStr::width of a text.
width(text) == IF text = <<>> THEN 0 ELSE GlyphWidth(Head(text)) + width(Tail(text))

RECURSIVE ByteLen(_)
\* str::len of a text: its UTF-8 bytes.
ByteLen(text) == IF text = <<>> THEN 0 ELSE GlyphBytes(Head(text)) + ByteLen(Tail(text))

RECURSIVE IndexOf(_, _)
\* The first position of grapheme g in text, 0 when there is none.
IndexOf(text, g) ==
  IF text = <<>> THEN 0
  ELSE IF Head(text) = g THEN 1
  ELSE LET i == IndexOf(Tail(text), g) IN IF i = 0 THEN 0 ELSE i + 1

\* -------------------------------------------------------------------- Span
Span(text, label) == [text |-> text, label |-> label]

\* Span::split_at: the result, or the "impossible to break" error.
split_at_drops_width_check(span, w) ==
  IF w > Len(span.text)
    THEN [ok |-> TRUE, l |-> Span(<<>>, span.label), r |-> span]
    ELSE [ok |-> TRUE,
          l |-> Span(Take(span.text, w), span.label),
          r |-> Span(Drop(span.text, w), span.label)]

split_at(span, w) ==
  IF w > Len(span.text)
    THEN [ok |-> TRUE, l |-> Span(<<>>, span.label), r |-> span]
    ELSE LET l == Take(span.text, w)
             r == Drop(span.text, w)
         IN IF width(l) > w
              THEN [ok |-> FALSE, l |-> Span(<<>>, span.label), r |-> span]
              ELSE [ok |-> TRUE, l |-> Span(l, span.label), r |-> Span(r, span.label)]

\* Span::split_soft_once: some |-> FALSE is None.
split_soft_once_drops_space(span) ==
  LET i == IndexOf(span.text, " ")
  IN IF i = 0
       THEN [some |-> FALSE, l |-> span, w |-> span, r |-> span]
       ELSE [some |-> TRUE,
             l |-> Span(Take(span.text, i - 1), span.label),
             w |-> Span(<<>>, span.label),
             r |-> Span(Drop(span.text, i), span.label)]

split_soft_once(span) ==
  LET i == IndexOf(span.text, " ")
  IN IF i = 0
       THEN [some |-> FALSE, l |-> span, w |-> span, r |-> span]
       ELSE [some |-> TRUE,
             l |-> Span(Take(span.text, i - 1), span.label),
             w |-> Span(<<" ">>, span.label),
             r |-> Span(Drop(span.text, i), span.label)]

\* ----------------------------------------------------- DisplayLinesBuilder
\* Option<T>: None, or Some(x).
None == <<>>
Some(x) == <<x>>

\* DisplayLinesBuilder::new
NewBuilder(lln, cols) ==
  [lln |-> lln, ll |-> None, ts |-> None, spans |-> <<>>, cum_width |-> 0,
   lines |-> <<>>, cols |-> cols]

DisplayLine(b) == [lln |-> b.lln, ll |-> b.ll, ts |-> b.ts, spans |-> b.spans]

\* DisplayLinesBuilder::push_line
push_line(b) ==
  [b EXCEPT !.lines = Append(b.lines, DisplayLine(b)), !.spans = <<>>, !.cum_width = 0]

\* DisplayLinesBuilder::build
build(b) == IF b.spans # <<>> THEN push_line(b).lines ELSE b.lines

\* A hard break for every span that has no soft break.
absolutely_too_wide_always(span_width, cols) == TRUE

\* `span_width > self.cols`: the span cannot fit on any row (line 142).
absolutely_too_wide(span_width, cols) == span_width > cols

\* One invocation of DisplayLinesBuilder::push_span, up to its recursive
\* calls: ok = FALSE is the Err of split_at, b the builder as the invocation
\* leaves it, calls the spans it goes on to push recursively, in order.
push_span(b, span) ==
  LET span_width == width(span.text) IN
  IF span.text = <<>> THEN [ok |-> TRUE, b |-> b, calls |-> <<>>]
  ELSE IF b.cum_width + span_width > b.cols THEN
    LET soft == split_soft_once(span) IN
    IF soft.some THEN [ok |-> TRUE, b |-> b, calls |-> <<soft.l, soft.w, soft.r>>]
    ELSE IF absolutely_too_wide(span_width, b.cols) THEN
      LET hard == split_at(span, b.cols - b.cum_width) IN
      IF ~hard.ok THEN [ok |-> FALSE, b |-> b, calls |-> <<>>]
      ELSE
        LET b1 == IF hard.l.text # <<>>
                    THEN [b EXCEPT !.spans = Append(b.spans, hard.l)]
                    ELSE b
        IN [ok |-> TRUE, b |-> push_line(b1), calls |-> <<hard.r>>]
    ELSE [ok |-> TRUE, b |-> push_line(b), calls |-> <<span>>]
  ELSE
    LET b1 == [b EXCEPT !.cum_width = b.cum_width + span_width,
                        !.spans = Append(b.spans, span)]
    IN [ok |-> TRUE, b |-> IF b1.cum_width = b1.cols THEN push_line(b1) ELSE b1,
        calls |-> <<>>]

RECURSIVE Unwind(_)
\* The call stack once every invocation with no call left to make has returned.
Unwind(stack) ==
  IF stack # <<>> /\ stack[Len(stack)] = <<>>
    THEN Unwind(SubSeq(stack, 1, Len(stack) - 1))
    ELSE stack

\* ------------------------------------------------------------ header grammar
DigitVal ==
  [g \in {"0", "1", "2", "3", "4", "5", "6", "7", "8", "9"} |->
     CASE g = "0" -> 0 [] g = "1" -> 1 [] g = "2" -> 2 [] g = "3" -> 3 [] g = "4" -> 4
       [] g = "5" -> 5 [] g = "6" -> 6 [] g = "7" -> 7 [] g = "8" -> 8 [] g = "9" -> 9]

IsDigit(g) == g \in DOMAIN DigitVal

\* The number written by the digits text[i..j].
Num(text, i, j) ==
  LET RECURSIVE go(_, _)
      go(k, acc) == IF k > j THEN acc ELSE go(k + 1, 10 * acc + DigitVal[text[k]])
  IN go(i, 0)

StartsWith(text, pat) == Len(text) >= Len(pat) /\ SubSeq(text, 1, Len(pat)) = pat

\* iso8601::parsers::parse_datetime on the extended UTC form
\* YYYY-MM-DDThh:mm:ssZ, the form env_logger writes: the year, month, day,
\* hour, minute and second read, with the field ranges the parser accepts.
\* Other ISO-8601 forms are outside the model: no line of it uses them.
DateTimeLen == 20

\* The shape YYYY-MM-DDThh:mm:ssZ at the start of text.
datetime_shape(text) ==
  /\ Len(text) >= DateTimeLen
  /\ \A i \in {1, 2, 3, 4, 6, 7, 9, 10, 12, 13, 15, 16, 18, 19} : IsDigit(text[i])
  /\ text[5] = "-" /\ text[8] = "-" /\ text[11] = "T"
  /\ text[14] = ":" /\ text[17] = ":" /\ text[20] = "Z"

datetime_fields(text) ==
  [year |-> Num(text, 1, 4), month |-> Num(text, 6, 7), day |-> Num(text, 9, 10),
   hour |-> Num(text, 12, 13), minute |-> Num(text, 15, 16), second |-> Num(text, 18, 19)]

\* The field ranges the parser accepts.
datetime_in_range(dt) ==
  /\ dt.month \in 1..12 /\ dt.day \in 1..31 /\ dt.hour \in 0..24
  /\ dt.minute \in 0..59 /\ dt.second \in 0..60

\* A parser's result: whether it matched, how many characters it consumed,
\* and its value.
Parsed(len, val) == [ok |-> TRUE, len |-> len, val |-> val]
NotParsed == [ok |-> FALSE, len |-> 0, val |-> 0]

parse_datetime(text) ==
  IF datetime_shape(text) /\ datetime_in_range(datetime_fields(text))
    THEN Parsed(DateTimeLen, datetime_fields(text))
    ELSE NotParsed

IsLeap(y) == (y % 4 = 0 /\ y % 100 # 0) \/ y % 400 = 0

DaysIn(y, m) ==
  IF m = 2 THEN (IF IsLeap(y) THEN 29 ELSE 28)
  ELSE IF m \in {4, 6, 9, 11} THEN 30 ELSE 31

\* DateTime<FixedOffset>::try_from(iso8601::DateTime): fails on a date or a
\* time of day that does not exist.
ts_conv_ok(dt) ==
  dt.day <= DaysIn(dt.year, dt.month) /\ dt.hour < 24 /\ dt.second < 60

IsSpace(g) == g \in {" ", "TAB", "LF", "CR"}

RECURSIVE multispace(_)
\* The number of leading whitespace characters of text.
multispace(text) ==
  IF text # <<>> /\ IsSpace(Head(text)) THEN 1 + multispace(Tail(text)) ELSE 0

\* nom multispace1: one whitespace character or more.
multispace1(text) ==
  IF multispace(text) > 0 THEN Parsed(multispace(text), 0) ELSE NotParsed

\* nom tag(t).
tag(text, t) == IF StartsWith(text, t) THEN Parsed(Len(t), 0) ELSE NotParsed

\* nom take_until(g): the text before the first g, which must occur.
take_until(text, g) ==
  IF IndexOf(text, g) # 0 THEN Parsed(IndexOf(text, g) - 1, 0) ELSE NotParsed

LevelTags ==
  << <<"E", "R", "R", "O", "R">>, <<"W", "A", "R", "N">>, <<"I", "N", "F", "O">>,
     <<"D", "E", "B", "U", "G">>, <<"T", "R", "A", "C", "E">> >>

\* The tags of LevelTags that text starts with.
level_hits(text) == {i \in 1..Len(LevelTags) : StartsWith(text, LevelTags[i])}

\* The first of a non-empty set of tags, in the order of `alt`.
first_hit(hits) == CHOOSE k \in hits : \A m \in hits : k <= m

\* parse_log_level: the first tag, in the order of `alt`, the text starts
\* with; its value is its position (ERROR = 0 .. TRACE = 4).
parse_log_level(text) ==
  IF level_hits(text) = {} THEN NotParsed
  ELSE Parsed(Len(LevelTags[first_hit(level_hits(text))]), first_hit(level_hits(text)) - 1)

\* One element `consumed(parser)` of the tuple: st is the tuple so far (the
\* input left and the pieces consumed, each with its parser's value), r the
\* parser's result on the input left.
consumed(st, r) ==
  IF st.ok /\ r.ok
    THEN [ok |-> TRUE, rest |-> Drop(st.rest, r.len),
          out |-> Append(st.out, [text |-> Take(st.rest, r.len), val |-> r.val])]
    ELSE [ok |-> FALSE, rest |-> st.rest, out |-> st.out]

\* The seven elements of the tuple of parse_log_line, in order.
eat_lb(st) == consumed(st, tag(st.rest, <<"[">>))
eat_ts(st) == consumed(st, parse_datetime(st.rest))
eat_w(st) == consumed(st, multispace1(st.rest))
eat_ll(st) == consumed(st, parse_log_level(st.rest))
eat_ww(st) == consumed(st, multispace1(st.rest))
eat_target(st) == consumed(st, take_until(st.rest, "]"))
eat_rb(st) == consumed(st, tag(st.rest, <<"]">>))

header_tuple(line) ==
  eat_rb(eat_target(eat_ww(eat_ll(eat_w(eat_ts(eat_lb(
    [ok |-> TRUE, rest |-> line, out |-> <<>>])))))))

NoHeader == [matched |-> FALSE]

\* The match on the tuple's result: the seven consumed pieces, the values of
\* the timestamp and level parsers and the remainder, or NoHeader when any
\* of the seven parsers failed.
header_of(t) ==
  IF ~t.ok THEN NoHeader
  ELSE [matched |-> TRUE,
        lb |-> t.out[1].text, ts |-> t.out[2].text, dt |-> t.out[2].val,
        w |-> t.out[3].text, ll |-> t.out[4].text, code |-> t.out[4].val,
        ww |-> t.out[5].text, target |-> t.out[6].text, rb |-> t.out[7].text,
        rem |-> t.rest]

parse_header(line) == header_of(header_tuple(line))

\* The spans pushed for a matched header (parse_log_line, lines 200-206).
header_spans(h) ==
  << Span(h.lb, "Noise"), Span(h.ts, "Timestamp"), Span(h.w, "Noise"),
     Span(h.ll, "Level"), Span(h.ww, "Noise"), Span(h.target, "Target"),
     Span(h.rb, "Noise") >>

\* ---------------------------------------------------------------- filter
\* A compiled filter is a pattern: a non-empty sequence of characters.  The
\* patterns of the model are literals, and "(" opens a group that nothing
\* closes: Regex::new rejects a pattern holding one.
regex_new_ok(pattern) == \A i \in 1..Len(pattern) : pattern[i] # "("

RECURSIVE find_iter_from(_, _, _)
\* Regex::find_iter for a literal: the leftmost non-overlapping occurrences
\* at or after offset `from`, as <<start, end>> with 0-based half-open offsets.
find_iter_from(text, pattern, from) ==
  IF from + Len(pattern) > Len(text) THEN <<>>
  ELSE IF SubSeq(text, from + 1, from + Len(pattern)) = pattern
    THEN <<<<from, from + Len(pattern)>>>> \o
         find_iter_from(text, pattern, from + Len(pattern))
    ELSE find_iter_from(text, pattern, from + 1)

find_iter(text, pattern) == find_iter_from(text, pattern, 0)

is_match(text, pattern) == find_iter(text, pattern) # <<>>

\* text[from..to], 0-based and half-open, as Rust slices a string.
Slice(text, from, to) == SubSeq(text, from + 1, to)

RECURSIVE match_spans_without_rest(_, _, _)
\* A loop over the matches that is not followed by the rest of the text.
match_spans_without_rest(rem, matches, last) ==
  IF matches = <<>> THEN <<>>
  ELSE LET m == Head(matches)
       IN <<Span(Slice(rem, last, m[1]), "Text"), Span(Slice(rem, m[1], m[2]), "TextMatch")>>
          \o match_spans_without_rest(rem, Tail(matches), m[2])

RECURSIVE match_spans(_, _, _)
\* The loop of parse_log_line over the matches (lines 222-226), then the
\* rest of the text (lines 227-229).
match_spans(rem, matches, last) ==
  IF matches = <<>>
    THEN IF last < Len(rem) THEN <<Span(Slice(rem, last, Len(rem)), "Text")>> ELSE <<>>
    ELSE LET m == Head(matches)
         IN <<Span(Slice(rem, last, m[1]), "Text"), Span(Slice(rem, m[1], m[2]), "TextMatch")>>
            \o match_spans(rem, Tail(matches), m[2])

\* The spans parse_log_line pushes for the text after the header; called
\* only when the filter, if any, matches.
text_spans(rem, filter) ==
  IF filter = None THEN <<Span(rem, "Text")>>
  ELSE match_spans(rem, find_iter(rem, filter[1]), 0)

\* A parse_log_line without the short-circuit.
filtered_out_never(rem, filter) == FALSE

\* parse_log_line's `filter.is_match(rem)` short-circuit.
filtered_out(rem, filter) == filter # None /\ ~is_match(rem, filter[1])

\* -------------------------------------------------------- parse_log_line
\* What parse_log_line returns: res "ok" with some = TRUE is Ok(Some(lines)),
\* res "ok" with some = FALSE is Ok(None), res "err" is Err(..) and
\* res "overflow" is the death of the process by stack overflow.
Ret(res, some, lines) == [res |-> res, some |-> some, lines |-> lines]

\* The builder after the header has been matched and converted.
header_builder(lln, cols, h) ==
  IF h.matched
    THEN [NewBuilder(lln, cols) EXCEPT !.ts = Some(h.dt), !.ll = Some(h.code)]
    ELSE NewBuilder(lln, cols)

remainder(line, h) == IF h.matched THEN h.rem ELSE line

\* =================================================== a call of parse_log_line
\* The line of parser.rs's test: a header and a text with soft breaks.
SampleLine ==
  << "[", "2", "0", "2", "4", "-", "0", "2", "-", "2", "5", "T", "2", "0", ":", "4", "9",
     ":", "4", "2", "Z", " ", "T", "R", "A", "C", "E", " ", "s", "8", "]", " ",
     "P", "e", "t", "e", "r", "s", "b", "u", "r", "g", ",", " ", "u", "s", "e", "d", " ",
     "o", "n", "l", "y", " ", "b", "y", " ", "t", "h", "e", " ", "e", "l", "i", "t", "e" >>

\* A header whose date does not exist (30 February), then a text.
BadDateLine ==
  << "[", "2", "0", "2", "4", "-", "0", "2", "-", "3", "0", "T", "2", "0", ":", "4", "9",
     ":", "4", "2", "Z", " ", "I", "N", "F", "O", " ", "x", "]", " ", "a" >>

\* A header with a wide character in its target, then a short text.
WideTargetLine ==
  << "[", "2", "0", "2", "4", "-", "0", "2", "-", "2", "5", "T", "2", "0", ":", "4", "9",
     ":", "4", "2", "Z", " ", "W", "A", "R", "N", " ", Wide, "]", "a", " ", "a" >>

FreeAlphabet == {"a", " ", Wide}
FreeLines == SeqsUpTo(FreeAlphabet, MaxLen)
HeaderLines == {SampleLine, BadDateLine, WideTargetLine}
ParseFilters == {None, Some(<<"a">>)}
\* The column counts of the test's soft-break cases, beside the small ones.
TestCols == {40, 80}

ParseInputs ==
  [lln : {0}, cols : 0..MaxCols, line : FreeLines \cup HeaderLines, filter : ParseFilters]
  \cup [lln : {0}, cols : TestCols, line : HeaderLines, filter : ParseFilters]

NoRet == Ret("none", FALSE, <<>>)

\* handle_ws has returned no Err.
NoErr == [kind |-> "none", id |-> 0]

\* read_to has no file open.
NoFile == [off |-> 0, ok |-> TRUE]

\* handle_ws_message handles no request.
NoRequest == [msg |-> [kind |-> "none"], len |-> 0]

\* The tailing session awaits no send.
NoSend == [frame |-> [kind |-> "none"], by |-> 0]

\* The query session awaits no send.
NoQuerySend == [frame |-> [kind |-> "none"], hist |-> [kind |-> "none"]]

InitP ==
  /\ p_pc = "call"
  /\ p_in \in ParseInputs
  /\ p_b = NewBuilder(p_in.lln, p_in.cols)
  /\ p_done = <<>>
  /\ p_todo = <<>>
  /\ p_stack = <<>>
  /\ p_ret = NoRet
  \* no file is written and no session runs
  /\ fs_exists = TRUE
  /\ fs_data = <<>>
  /\ fs_truncs = 0
  /\ ctx = None
  /\ chan = [value |-> None, changed |-> FALSE]
  /\ w_modify = 0
  /\ w_remove = FALSE
  /\ inbox = <<>>
  /\ rx_ended = FALSE
  /\ c_sent = 0
  /\ out = <<>>
  /\ s_pc = "select"
  /\ s_err = NoErr
  /\ t_rest = <<>>
  /\ t_line = <<>>
  /\ t_lines = <<>>
  /\ t_seen = <<>>
  /\ t_raw = 0
  /\ t_by = <<>>
  /\ t_rd = 0
  /\ t_fd = NoFile
  /\ t_req = NoRequest
  /\ t_send = NoSend
  /\ t_quiet = FALSE
  /\ q_last = None
  /\ q_inbox = <<>>
  /\ q_ended = FALSE
  /\ q_sent = 0
  /\ q_out = <<>>
  /\ q_pc = "recv"
  /\ q_err = NoErr
  /\ q_req = None
  /\ q_rest = <<>>
  /\ q_off = 0
  /\ q_seen = <<>>
  /\ q_quiet = FALSE
  /\ q_lln = 0
  /\ q_rows = <<>>
  /\ q_total = 0
  /\ q_hist = <<>>
  /\ q_send = NoQuerySend

\* The header match and the timestamp conversion (lines 177-199).
MatchHeader ==
  /\ p_pc = "call"
  /\ LET h == parse_header(p_in.line) IN
     IF h.matched /\ ~ts_conv_ok(h.dt)
       THEN /\ p_pc' = "done"
            /\ p_ret' = Ret("err", FALSE, <<>>)
            /\ p_b' = NewBuilder(p_in.lln, p_in.cols)
            /\ p_todo' = <<>>
       ELSE /\ p_pc' = "header"
            /\ p_b' = header_builder(p_in.lln, p_in.cols, h)
            /\ p_todo' = IF h.matched THEN header_spans(h) ELSE <<>>
            /\ p_ret' = NoRet
  /\ p_done' = <<>>
  /\ p_stack' = <<>>
  /\ UNCHANGED p_in

\* The next invocation of push_span: the next `ret.push_span(..)?` of
\* parse_log_line when no invocation is active, else the next recursive call
\* of the innermost active invocation.  An Err unwinds every caller (`?`); an
\* invocation nested deeper than the stack holds kills the process.
PushSpanCall ==
  /\ p_pc \in {"header", "text"}
  /\ p_todo # <<>> \/ p_stack # <<>>
  /\ LET d == Len(p_stack)
         span == IF d = 0 THEN Head(p_todo) ELSE Head(p_stack[d])
         callers == IF d = 0 THEN p_stack ELSE [p_stack EXCEPT ![d] = Tail(@)]
         r == push_span(p_b, span)
     IN
     /\ p_todo' = IF d = 0 THEN Tail(p_todo) ELSE p_todo
     /\ p_done' = IF d = 0 THEN Append(p_done, span) ELSE p_done
     /\ IF d > StackLimit
          THEN /\ p_pc' = "done"
               /\ p_ret' = Ret("overflow", FALSE, <<>>)
               /\ UNCHANGED <<p_b, p_stack>>
          ELSE IF ~r.ok
            THEN /\ p_pc' = "done"
                 /\ p_ret' = Ret("err", FALSE, <<>>)
                 /\ p_stack' = <<>>
                 /\ UNCHANGED p_b
            ELSE /\ p_b' = r.b
                 /\ p_stack' = Unwind(Append(callers, r.calls))
                 /\ UNCHANGED <<p_pc, p_ret>>
  /\ UNCHANGED p_in

\* The filter's short-circuit and the spans of the text (lines 211-234).
ApplyFilter ==
  /\ p_pc = "header"
  /\ p_todo = <<>> /\ p_stack = <<>>
  /\ LET rem == remainder(p_in.line, parse_header(p_in.line)) IN
     IF filtered_out(rem, p_in.filter)
       THEN /\ p_pc' = "done"
            /\ p_ret' = Ret("ok", FALSE, <<>>)
            /\ UNCHANGED p_todo
       ELSE /\ p_pc' = "text"
            /\ p_todo' = text_spans(rem, p_in.filter)
            /\ UNCHANGED p_ret
  /\ UNCHANGED <<p_in, p_b, p_done, p_stack>>

\* `Ok(Some(ret.build()))`
Build ==
  /\ p_pc = "text"
  /\ p_todo = <<>> /\ p_stack = <<>>
  /\ p_pc' = "done"
  /\ p_ret' = Ret("ok", TRUE, build(p_b))
  /\ UNCHANGED <<p_in, p_b, p_done, p_todo, p_stack>>

NextP == MatchHeader \/ PushSpanCall \/ ApplyFilter \/ Build

\* ============================================== the log file and its watcher
LogPath == "a.log"
\* A path at which there is no file.
MissingPath == "no.log"

\* What a writer appends in one write.
Chunks == { <<"a">>, <<"b", "LF">>, <<"CR", "LF">> }

\* std::fs::metadata(path): ok and the length, or an error.
metadata(path) ==
  IF path = LogPath /\ fs_exists
    THEN [ok |-> TRUE, len |-> ByteLen(fs_data)]
    ELSE [ok |-> FALSE, len |-> 0]

\* File::open(path) succeeds.
file_open(path) == path = LogPath /\ fs_exists

\* The watcher of the current Context, if it watches the log file.
Watching == ctx # None /\ ctx[1].file = LogPath

\* handle_ws has not returned: its Context, with the watcher it owns, and
\* the connection to its client are there.  The watcher's thread, the
\* client and the writers run on their own, whatever the session's task is
\* at: between the awaits of read_to (lines 87-90) as well as in
\* select_biased (line 175).
SessionLive == s_pc \notin {"closed", "dead"}

\* A writer appends to the log file; the watcher gets a Modify(Data) event.
\* The writers modelled append until one of them truncates the file.
FileAppend ==
  /\ fs_exists
  /\ fs_truncs = 0
  /\ \E chunk \in Chunks :
       /\ Len(fs_data) + Len(chunk) <= MaxFile
       /\ fs_data' = fs_data \o chunk
  /\ w_modify' = IF Watching THEN Min(w_modify + 1, MaxEvents) ELSE w_modify
  /\ t_quiet' = FALSE
  /\ q_quiet' = FALSE
  /\ UNCHANGED <<fs_exists, fs_truncs, ctx, chan, w_remove, inbox, rx_ended, c_sent, out, s_pc, s_err,
                 t_rest, t_line, t_lines, t_seen, t_raw, t_by, t_rd, t_fd, t_req, t_send, varsP,
                 q_last, q_inbox, q_ended, q_sent, q_out, q_pc, q_err, q_req, q_rest, q_off, q_seen, q_lln, q_rows, q_total, q_hist, q_send>>

\* The whole lines a writer appends, one to a write: a narrow one and one
\* of a character that takes three bytes.
LineChunks == { <<"b", "LF">>, <<Wide, "LF">> }

\* A writer appends a whole line to the log file; the watcher gets a
\* Modify(Data) event.
FileAppendLine ==
  /\ fs_exists
  /\ Cardinality({i \in 1..Len(fs_data) : fs_data[i] = "LF"}) < MaxLines
  /\ \E chunk \in LineChunks : fs_data' = fs_data \o chunk
  /\ w_modify' = IF Watching THEN Min(w_modify + 1, MaxEvents) ELSE w_modify
  /\ t_quiet' = FALSE
  /\ q_quiet' = FALSE
  /\ UNCHANGED <<fs_exists, fs_truncs, ctx, chan, w_remove, inbox, rx_ended, c_sent, out, s_pc,
                 s_err, t_rest, t_line, t_lines, t_seen, t_raw, t_by, t_rd, t_fd, t_req, t_send, varsP,
                 q_last, q_inbox, q_ended, q_sent, q_out, q_pc, q_err, q_req, q_rest, q_off, q_seen, q_lln, q_rows, q_total, q_hist, q_send>>

\* A writer truncates the log file to nothing; the watcher gets a
\* Modify(Data) event.
FileTruncate ==
  /\ fs_exists
  /\ fs_data # <<>>
  /\ fs_truncs < MaxTruncs
  /\ fs_data' = <<>>
  /\ fs_truncs' = fs_truncs + 1
  /\ w_modify' = IF Watching THEN Min(w_modify + 1, MaxEvents) ELSE w_modify
  /\ t_quiet' = FALSE
  /\ q_quiet' = FALSE
  /\ UNCHANGED <<fs_exists, ctx, chan, w_remove, inbox, rx_ended, c_sent, out, s_pc, s_err,
                 t_rest, t_line, t_lines, t_seen, t_raw, t_by, t_rd, t_fd, t_req, t_send, varsP,
                 q_last, q_inbox, q_ended, q_sent, q_out, q_pc, q_err, q_req, q_rest, q_off, q_seen, q_lln, q_rows, q_total, q_hist, q_send>>

\* The log file is removed; the watcher gets a Remove event.
FileRemove ==
  /\ fs_exists
  /\ fs_exists' = FALSE
  /\ w_remove' = Watching
  /\ t_quiet' = FALSE
  /\ q_quiet' = FALSE
  /\ UNCHANGED <<fs_data, fs_truncs, ctx, chan, w_modify, inbox, rx_ended, c_sent, out, s_pc, s_err,
                 t_rest, t_line, t_lines, t_seen, t_raw, t_by, t_rd, t_fd, t_req, t_send, varsP,
                 q_last, q_inbox, q_ended, q_sent, q_out, q_pc, q_err, q_req, q_rest, q_off, q_seen, q_lln, q_rows, q_total, q_hist, q_send>>

\* The watcher's callback on Modify(Data) (Context::new, lines 56-61).
WatcherModify ==
  /\ SessionLive
  /\ w_modify > 0
  /\ w_modify' = w_modify - 1
  /\ LET meta == metadata(ctx[1].file) IN
     chan' = IF meta.ok THEN [value |-> Some(meta.len), changed |-> TRUE] ELSE chan
  /\ UNCHANGED <<varsF, ctx, w_remove, inbox, rx_ended, c_sent, out, s_pc, s_err,
                 t_rest, t_line, t_lines, t_seen, t_raw, t_by, t_rd, t_fd, t_req, t_send, t_quiet, varsP, varsQ>>

\* The watcher's callback on Remove (Context::new, lines 65-67): a debug log.
WatcherRemove ==
  /\ SessionLive
  /\ w_remove
  /\ w_remove' = FALSE
  /\ UNCHANGED <<varsF, ctx, chan, w_modify, inbox, rx_ended, c_sent, out, s_pc, s_err,
                 t_rest, t_line, t_lines, t_seen, t_raw, t_by, t_rd, t_fd, t_req, t_send, t_quiet, varsP, varsQ>>

\* ================================================== the client of a tail

Request(cols, filter, log_file) ==
  [kind |-> "request", cols |-> cols, filter |-> filter, log_file |-> log_file]

\* What the client sends: a `logs` request (for the log file with or without
\* a filter, with a filter that is no regular expression, for a file that
\* does not exist), a binary frame, or a text frame that is no JSON request.
TailMessages ==
  { Request(2, None, LogPath), Request(1, Some(<<"b">>), LogPath),
    Request(2, Some(<<"(">>), LogPath), Request(2, None, MissingPath),
    [kind |-> "binary"], [kind |-> "bad_json"] }

WithId(m, id) ==
  IF m.kind = "request"
    THEN [kind |-> "request", id |-> id, cols |-> m.cols, filter |-> m.filter,
          log_file |-> m.log_file]
    ELSE m

ClientSend ==
  /\ SessionLive
  /\ ~rx_ended
  /\ c_sent < MaxMsgs
  /\ \E m \in TailMessages : inbox' = Append(inbox, WithId(m, c_sent + 1))
  /\ c_sent' = c_sent + 1
  /\ UNCHANGED <<varsF, ctx, chan, w_modify, w_remove, rx_ended, out, s_pc, s_err,
                 t_rest, t_line, t_lines, t_seen, t_raw, t_by, t_rd, t_fd, t_req, t_send, t_quiet, varsP, varsQ>>

\* The requests of a client that tails the log file: with room for a wide
\* character in a row, and without.
StartMessages == { Request(2, None, LogPath), Request(1, None, LogPath) }

\* A client that sends `logs` requests for the log file and stays connected.
ClientStart ==
  /\ SessionLive
  /\ ~rx_ended
  /\ c_sent < MaxMsgs
  /\ \E m \in StartMessages : inbox' = Append(inbox, WithId(m, c_sent + 1))
  /\ c_sent' = c_sent + 1
  /\ UNCHANGED <<varsF, ctx, chan, w_modify, w_remove, rx_ended, out, s_pc, s_err,
                 t_rest, t_line, t_lines, t_seen, t_raw, t_by, t_rd, t_fd, t_req, t_send, t_quiet, varsP, varsQ>>

ClientClose ==
  /\ SessionLive
  /\ ~rx_ended
  /\ rx_ended' = TRUE
  /\ UNCHANGED <<varsF, ctx, chan, w_modify, w_remove, inbox, c_sent, out, s_pc, s_err,
                 t_rest, t_line, t_lines, t_seen, t_raw, t_by, t_rd, t_fd, t_req, t_send, t_quiet, varsP, varsQ>>

\* The transport fails: rx.next() yields Some(Err(..)) after the messages
\* received, and the inbound stream is at its end.
ClientAbort ==
  /\ SessionLive
  /\ ~rx_ended
  /\ inbox' = Append(inbox, [kind |-> "error"])
  /\ rx_ended' = TRUE
  /\ UNCHANGED <<varsF, ctx, chan, w_modify, w_remove, c_sent, out, s_pc, s_err,
                 t_rest, t_line, t_lines, t_seen, t_raw, t_by, t_rd, t_fd, t_req, t_send, t_quiet,
                 varsP, varsQ>>

\* ============================================ the session of connection.rs
Response(id) == [kind |-> "response", id |-> id, result |-> Some("unit"), error |-> None]
TailNote(lines) == [kind |-> "tail", display_lines |-> lines]
DoneNote == [kind |-> "done"]

\* The channel of Context::new: watch::channel(None), then
\* tx.send_replace(Some(len)), which the new receiver has not seen
\* (lines 48-49).
new_channel(len) == [value |-> Some(len), changed |-> TRUE]

\* A Context::new that takes the cursor over from the Context it replaces.
NewContext_keeps_cursor(file, cols, filter) ==
  [cols |-> cols, filter |-> filter, file |-> file,
   pos |-> IF ctx = None THEN 0 ELSE ctx[1].pos,
   lines_read |-> IF ctx = None THEN 0 ELSE ctx[1].lines_read]

\* Context::new for a file whose metadata can be read.
NewContext(file, cols, filter) ==
  [cols |-> cols, filter |-> filter, file |-> file, pos |-> 0, lines_read |-> 0]

RECURSIVE contexts_made(_)
\* How many Contexts the session has made: one for each response sent.
contexts_made(o) ==
  IF o = <<>> THEN 0
  ELSE contexts_made(Tail(o)) + (IF Head(o).kind = "response" THEN 1 ELSE 0)

\* handle_ws returns Err(kind): the connection is dropped.
CloseWith(kind, id) ==
  /\ s_pc' = "closed"
  /\ s_err' = [kind |-> kind, id |-> id]

\* tx.send(..).await? can fail: the sink returns an error once the client
\* has closed the connection or the transport has failed, before the send
\* or while it is awaited.  Whether a send after that point still goes
\* through depends on what the socket has taken, so both outcomes are there.
send_can_fail == rx_ended

\* The first branch of select_biased, with a message (lines 176-179):
\* `msg?`, then handle_ws_message up to the metadata of the file in
\* Context::new (lines 130-134, 47).
HandleMessage ==
  /\ s_pc = "select"
  /\ inbox # <<>>
  /\ inbox' = Tail(inbox)
  /\ LET msg == Head(inbox) IN
     IF msg.kind = "binary"
       THEN UNCHANGED <<s_pc, s_err, t_req>>
     ELSE IF msg.kind = "error"
       THEN CloseWith("transport", 0) /\ UNCHANGED t_req
     ELSE IF msg.kind = "bad_json"
       THEN CloseWith("json", 0) /\ UNCHANGED t_req
     ELSE IF msg.filter # None /\ ~regex_new_ok(msg.filter[1])
       THEN CloseWith("regex", msg.id) /\ UNCHANGED t_req
     ELSE IF ~metadata(msg.log_file).ok
       THEN CloseWith("metadata", msg.id) /\ UNCHANGED t_req
     ELSE /\ s_pc' = "watching"
          /\ t_req' = [msg |-> msg, len |-> metadata(msg.log_file).len]
          /\ UNCHANGED s_err
  /\ UNCHANGED <<varsF, ctx, chan, w_modify, w_remove, rx_ended, c_sent, out,
                 t_rest, t_line, t_lines, t_seen, t_raw, t_by, t_rd, t_fd, t_send, t_quiet,
                 varsP, varsQ>>

\* The rest of Context::new and of handle_ws_message up to the await of
\* the response's send (lines 48-77, 134-140): the channel gets the length
\* the metadata gave, the watcher is made and set on the file as it is now
\* (a file that is gone fails the watch), and the new Context takes the
\* place of the old one, whose watcher and events go with it.
StartWatch ==
  /\ s_pc = "watching"
  /\ IF ~file_open(t_req.msg.log_file)
       THEN /\ CloseWith("watch", t_req.msg.id)
            /\ UNCHANGED <<ctx, chan, w_modify, w_remove, t_seen, t_raw, t_send>>
       ELSE /\ ctx' = Some(NewContext(t_req.msg.log_file, t_req.msg.cols, t_req.msg.filter))
            /\ chan' = new_channel(t_req.len)
            /\ w_modify' = 0
            /\ w_remove' = FALSE
            /\ t_seen' = <<>>
            /\ t_raw' = 0
            /\ t_send' = [frame |-> Response(t_req.msg.id), by |-> contexts_made(out) + 1]
            /\ s_pc' = "sending"
            /\ UNCHANGED s_err
  /\ t_req' = NoRequest
  /\ UNCHANGED <<varsF, inbox, rx_ended, c_sent, out, t_rest, t_line, t_lines, t_by, t_rd,
                 t_fd, t_quiet, varsP, varsQ>>

\* tx.send(..).await? (lines 135-140, 153-157, 161-165) comes back: the
\* frame has gone out, or the send has failed and handle_ws returns its
\* Err.  Until it does the task is suspended with what was done before the
\* send: the new Context in place, or the channel's value marked seen.
SendFrame ==
  /\ s_pc = "sending"
  /\ \/ /\ out' = Append(out, t_send.frame)
        /\ t_by' = Append(t_by, t_send.by)
        /\ t_quiet' = IF t_send.frame.kind = "response" THEN TRUE ELSE t_quiet
        /\ s_pc' = "select"
        /\ UNCHANGED s_err
     \/ /\ send_can_fail
        /\ CloseWith("send", IF t_send.frame.kind = "response" THEN t_send.frame.id ELSE 0)
        /\ UNCHANGED <<out, t_by, t_quiet>>
  /\ t_send' = NoSend
  /\ UNCHANGED <<varsF, ctx, chan, w_modify, w_remove, inbox, rx_ended, c_sent, t_rest,
                 t_line, t_lines, t_seen, t_raw, t_rd, t_fd, t_req, varsP, varsQ>>

\* The first branch of select_biased once the inbound stream has ended:
\* rx.next() yields None at once, nothing is done, and the loop goes round.
StreamEnded ==
  /\ s_pc = "select"
  /\ inbox = <<>>
  /\ rx_ended
  /\ UNCHANGED vars

RECURSIVE skip_bytes(_, _)
\* The text from byte offset n on, and whether the bytes from there on are
\* valid UTF-8: an offset inside a character leaves continuation bytes first.
skip_bytes(data, n) ==
  IF n = 0 \/ data = <<>> THEN [ok |-> TRUE, text |-> data]
  ELSE IF GlyphBytes(Head(data)) > n THEN [ok |-> FALSE, text |-> Tail(data)]
  ELSE skip_bytes(Tail(data), n - GlyphBytes(Head(data)))

\* A read at byte offset pos that takes the file to its end: the text from
\* there on, and whether those bytes are valid UTF-8.
ReadFrom(pos) == skip_bytes(fs_data, pos)

\* An unbiased select would not let a ready rx.next() win.
rx_ready_never == FALSE
\* rx.next() is ready: a message waits, or the inbound stream has ended.
rx_ready == inbox # <<>> \/ rx_ended

\* herald_of_the_change is ready: there is a Context and its channel holds
\* a value that has not been seen.
herald_ready == ctx # None /\ chan.changed

\* read_to without its first statement.
read_to_never_returns_early(c, len) == FALSE
\* read_to's first statement: nothing to read when the cursor is at or past
\* the length (line 82).
read_to_returns_early(c, len) == c.pos >= len

\* The second branch of select_biased: herald_of_the_change yields the
\* channel's value and marks it seen (line 118), and handle_changed comes
\* to the await of the send of `done` (lines 161-165) or of the empty
\* `tail` of a read_to that returns early (lines 82-85, 153-157), or runs
\* read_to up to its first await, at File::open (line 87).  rx.changed()
\* has no error here: the sender lives in the watcher the Context owns.
HandleChanged ==
  /\ s_pc = "select"
  /\ ~rx_ready
  /\ herald_ready
  /\ chan' = [chan EXCEPT !.changed = FALSE]
  /\ IF chan.value = None
       THEN /\ s_pc' = "sending"
            /\ t_send' = [frame |-> DoneNote, by |-> contexts_made(out)]
            /\ UNCHANGED t_rd
     ELSE IF read_to_returns_early(ctx[1], chan.value[1])
       THEN /\ s_pc' = "sending"
            /\ t_send' = [frame |-> TailNote(<<>>), by |-> contexts_made(out)]
            /\ UNCHANGED t_rd
     ELSE /\ s_pc' = "opening"
          /\ t_rd' = contexts_made(out)
          /\ UNCHANGED t_send
  /\ UNCHANGED <<varsF, ctx, w_modify, w_remove, inbox, rx_ended, c_sent, out, s_err, t_rest,
                 t_line, t_lines, t_seen, t_raw, t_by, t_fd, t_req, t_quiet, varsP, varsQ>>

\* read_to resumes at File::open(&self.file).await? (line 87): the file is
\* opened as it is now, or the error ends handle_ws.
OpenFile ==
  /\ s_pc = "opening"
  /\ IF file_open(ctx[1].file)
       THEN s_pc' = "opened" /\ UNCHANGED s_err
       ELSE CloseWith("open", 0)
  /\ UNCHANGED <<varsF, ctx, chan, w_modify, w_remove, inbox, rx_ended, c_sent, out,
                 t_rest, t_line, t_lines, t_seen, t_raw, t_by, t_rd, t_fd, t_req, t_send, t_quiet, varsP, varsQ>>

\* read_to resumes at file.seek(SeekFrom::Start(self.pos)).await? (line 88):
\* the open file's offset is the cursor, and `contents` is the empty String
\* of line 89.
SeekFile ==
  /\ s_pc = "opened"
  /\ s_pc' = "filling"
  /\ t_fd' = [off |-> ctx[1].pos, ok |-> TRUE]
  /\ t_rest' = <<>>
  /\ UNCHANGED <<varsF, ctx, chan, w_modify, w_remove, inbox, rx_ended, c_sent, out, s_err,
                 t_line, t_lines, t_seen, t_raw, t_by, t_rd, t_req, t_send, t_quiet, varsP, varsQ>>

\* The bytes the file holds from the open file's offset on, as it is now:
\* none when the offset is at or past its end.
BytesLeft == Max(ByteLen(fs_data) - t_fd.off, 0)

\* read_to_string resumes at a read that returns bytes (line 90): it takes
\* what the file holds now from the offset to its end (a file of the model
\* is shorter than the buffer of a read), the offset moves there, and
\* read_to_string goes on to another read.  A removal of the file's name
\* leaves the open file readable.
ReadBytes ==
  /\ s_pc = "filling"
  /\ BytesLeft > 0
  /\ t_rest' = t_rest \o ReadFrom(t_fd.off).text
  /\ t_fd' = [off |-> ByteLen(fs_data), ok |-> t_fd.ok /\ ReadFrom(t_fd.off).ok]
  /\ UNCHANGED <<varsF, ctx, chan, w_modify, w_remove, inbox, rx_ended, c_sent, out, s_pc,
                 s_err, t_line, t_lines, t_seen, t_raw, t_by, t_rd, t_req, t_send, t_quiet, varsP, varsQ>>

\* read_to_string resumes at a read that returns no bytes, the end of the
\* file as it is now (line 90): it returns the text read, or the error
\* that the bytes read are not valid UTF-8, which ends handle_ws.  The file
\* is read no more.
ReadContents ==
  /\ s_pc = "filling"
  /\ BytesLeft = 0
  /\ IF t_fd.ok
       THEN /\ s_pc' = "reading"
            /\ t_lines' = <<>>
            /\ UNCHANGED <<s_err, t_rest>>
       ELSE /\ CloseWith("utf8", 0)
            /\ UNCHANGED <<t_rest, t_lines>>
  /\ t_fd' = NoFile
  /\ UNCHANGED <<varsF, ctx, chan, w_modify, w_remove, inbox, rx_ended, c_sent, out,
                 t_line, t_seen, t_raw, t_by, t_rd, t_req, t_send, t_quiet, varsP, varsQ>>

RECURSIVE trim_end_matches(_, _)
\* str::trim_end_matches(c): the text without its trailing run of c.
trim_end_matches(text, c) ==
  IF text # <<>> /\ text[Len(text)] = c
    THEN trim_end_matches(SubSeq(text, 1, Len(text) - 1), c)
    ELSE text

\* The line read_to parses for a raw segment (lines 96-97).
TrimLine(segment) == trim_end_matches(trim_end_matches(segment, "LF"), "CR")

\* The next item of contents.split_inclusive("\n"): up to and with the
\* first line feed, or all of it when there is none.
NextSegment(rest) ==
  LET i == IndexOf(rest, "LF") IN IF i = 0 THEN rest ELSE Take(rest, i)

\* A loop that takes the trailing segment as a line too.
ends_with_newline_always(segment) == TRUE
\* `line.ends_with("\n")` (line 92).
ends_with_newline(segment) == segment # <<>> /\ segment[Len(segment)] = "LF"

\* read_to's loop, at a segment that ends in a line feed: the call of
\* parse_log_line for it.
ReadLine ==
  /\ s_pc = "reading"
  /\ t_rest # <<>> /\ ends_with_newline(NextSegment(t_rest))
  /\ LET segment == NextSegment(t_rest) IN
     /\ t_line' = segment
     /\ t_rest' = Drop(t_rest, Len(segment))
     /\ t_seen' = Append(t_seen, TrimLine(segment))
     /\ p_in' = [lln |-> ctx[1].lines_read, cols |-> ctx[1].cols,
                 line |-> TrimLine(segment), filter |-> ctx[1].filter]
  /\ p_pc' = "call"
  /\ s_pc' = "parsing"
  /\ UNCHANGED <<varsF, ctx, chan, w_modify, w_remove, inbox, rx_ended, c_sent, out, s_err,
                 t_lines, t_raw, t_by, t_rd, t_fd, t_req, t_send, t_quiet, p_b, p_done, p_todo, p_stack, p_ret, varsQ>>

\* A read_to that assigns the line's length to pos instead of adding it.
advance_assigns_pos(c, segment) ==
  [c EXCEPT !.pos = ByteLen(TrimLine(segment)), !.lines_read = c.lines_read + 1]

\* The cursor after read_to has consumed a raw segment (lines 106-107).
advance(c, segment) ==
  [c EXCEPT !.pos = c.pos + ByteLen(TrimLine(segment)), !.lines_read = c.lines_read + 1]

\* read_to's loop after parse_log_line has returned: Ok(Some(p)) extends the
\* rows, anything else is dropped, and the cursor moves (lines 98-107).
ReadLineDone ==
  /\ s_pc = "parsing"
  /\ p_pc = "done"
  /\ p_pc' = "idle"
  /\ IF p_ret.res = "overflow"
       THEN /\ s_pc' = "dead"
            /\ UNCHANGED <<ctx, t_lines, t_raw>>
       ELSE /\ s_pc' = "reading"
            /\ t_lines' = IF p_ret.res = "ok" /\ p_ret.some
                            THEN t_lines \o p_ret.lines ELSE t_lines
            /\ ctx' = Some(advance(ctx[1], t_line))
            /\ t_raw' = t_raw + ByteLen(t_line)
  /\ UNCHANGED <<varsF, chan, w_modify, w_remove, inbox, rx_ended, c_sent, out, s_err,
                 t_rest, t_line, t_seen, t_by, t_rd, t_fd, t_req, t_send, t_quiet, p_in, p_b, p_done, p_todo, p_stack, p_ret,
                 varsQ>>

\* read_to's loop ends, at the end of contents or at a segment with no line
\* feed, and read_to returns the rows; handle_changed comes to the await of
\* the send of the `tail` notification that holds them (lines 109, 153-157).
ReadDone ==
  /\ s_pc = "reading"
  /\ t_rest = <<>> \/ ~ends_with_newline(NextSegment(t_rest))
  /\ s_pc' = "sending"
  /\ t_send' = [frame |-> TailNote(t_lines), by |-> t_rd]
  /\ t_rest' = <<>>
  /\ t_lines' = <<>>
  /\ UNCHANGED <<varsF, ctx, chan, w_modify, w_remove, inbox, rx_ended, c_sent, out, s_err,
                 t_line, t_seen, t_raw, t_by, t_rd, t_fd, t_req, t_quiet, varsP, varsQ>>

\* ================================================ the client of a query

Query(cols, filter, log_file, from, to) ==
  [kind |-> "query", cols |-> cols, filter |-> filter, log_file |-> log_file,
   from |-> from, to |-> to]

\* The row ranges a client asks for: all rows, up to a row, from a later row
\* to past the end, and with `from` greater than `to`.
QueryRanges == { <<0, None>>, <<0, Some(1)>>, <<1, Some(MaxRow)>>, <<2, Some(1)>> }

\* What the client sends: a query of the log file (with no filter over the
\* row ranges, and with a filter), a query with a filter that is no regular
\* expression, a query of a file that does not exist, a binary frame, or a
\* text frame that is no JSON query.
QueryMessages ==
  { Query(2, None, LogPath, r[1], r[2]) : r \in QueryRanges }
    \cup { Query(1, Some(<<"b">>), LogPath, 0, None),
           Query(1, Some(<<"b">>), LogPath, 2, Some(1)),
           Query(2, Some(<<"(">>), LogPath, 0, None),
           Query(2, None, MissingPath, 0, None),
           [kind |-> "binary"], [kind |-> "bad_json"] }

QueryWithId(m, id) ==
  IF m.kind = "query"
    THEN [kind |-> "query", id |-> id, cols |-> m.cols, filter |-> m.filter,
          log_file |-> m.log_file, from |-> m.from, to |-> m.to]
    ELSE m

\* The query session has not ended.
QuerySessionLive == q_pc \in {"recv", "scan", "parsing", "sending"}

QueryClientSend ==
  /\ QuerySessionLive
  /\ ~q_ended
  /\ q_sent < MaxMsgs
  /\ \E m \in QueryMessages : q_inbox' = Append(q_inbox, QueryWithId(m, q_sent + 1))
  /\ q_sent' = q_sent + 1
  /\ UNCHANGED <<varsF, varsT, varsP, q_last, q_ended, q_out, q_pc, q_err, q_req, q_rest,
                 q_off, q_seen, q_quiet, q_lln, q_rows, q_total, q_hist, q_send>>

QueryClientClose ==
  /\ QuerySessionLive
  /\ ~q_ended
  /\ q_ended' = TRUE
  /\ UNCHANGED <<varsF, varsT, varsP, q_last, q_inbox, q_sent, q_out, q_pc, q_err, q_req,
                 q_rest, q_off, q_seen, q_quiet, q_lln, q_rows, q_total, q_hist, q_send>>

\* The transport fails: rx.next() yields Some(Err(..)) after the messages
\* received, and the inbound stream is at its end.
QueryClientAbort ==
  /\ QuerySessionLive
  /\ ~q_ended
  /\ q_inbox' = Append(q_inbox, [kind |-> "error"])
  /\ q_ended' = TRUE
  /\ UNCHANGED <<varsF, varsT, varsP, q_last, q_sent, q_out, q_pc, q_err, q_req,
                 q_rest, q_off, q_seen, q_quiet, q_lln, q_rows, q_total, q_hist, q_send>>

\* ================================================ the session of main.rs
QueryResponse(total_display_lines, display_lines, row_offset) ==
  [total_display_lines |-> total_display_lines, display_lines |-> display_lines,
   row_offset |-> row_offset]

JsonRpcResponse(id, result) ==
  [kind |-> "response", id |-> id, result |-> Some(result), error |-> None]

\* usize::clamp(x, lo, hi).
clamp(x, lo, hi) == IF x < lo THEN lo ELSE IF x > hi THEN hi ELSE x

\* QueryResponse::range(start0..end0): the rows of the clamped range, or a
\* panic (ok = FALSE) when the slice `display_lines[start..end]` has its
\* start after its end.
range(self, start0, end0) ==
  LET start == clamp(start0, 0, Len(self.display_lines))
      end == clamp(end0, 0, Len(self.display_lines))
  IN IF start > end
       THEN [ok |-> FALSE, value |-> self]
       ELSE [ok |-> TRUE,
             value |-> QueryResponse(self.total_display_lines,
                                     SubSeq(self.display_lines, start + 1, end),
                                     start)]

\* The cache test of handle_ws (lines 177-179), in a variant that also
\* compares the start of the row range.
same_query_compares_from(new, last_query) ==
  /\ new.cols = last_query.cols
  /\ new.filter = last_query.filter
  /\ new.log_file = last_query.log_file
  /\ new.from = last_query.from

\* A cache test that takes every query for the cached one.
same_query_always(new, last_query) == TRUE

\* The cache test of handle_ws (lines 177-179).
same_query(new, last_query) ==
  /\ new.cols = last_query.cols
  /\ new.filter = last_query.filter
  /\ new.log_file = last_query.log_file

RECURSIVE reader_lines(_)
\* BufRead::lines: the text up to each line feed without it and without one
\* carriage return before it; text after the last line feed is a line too.
reader_lines(data) ==
  IF data = <<>> THEN <<>>
  ELSE LET i == IndexOf(data, "LF")
           raw == IF i = 0 THEN data ELSE Take(data, i - 1)
           line == IF raw # <<>> /\ raw[Len(raw)] = "CR" /\ i # 0
                     THEN Take(raw, Len(raw) - 1) ELSE raw
       IN <<line>> \o (IF i = 0 THEN <<>> ELSE reader_lines(Drop(data, i)))

\* handle_ws returns Err(kind): the connection is dropped.
QueryCloseWith(kind, id) ==
  /\ q_pc' = "closed"
  /\ q_err' = [kind |-> kind, id |-> id]

\* tx.send(..).await? can fail: the sink returns an error once the client
\* has closed the connection or the transport has failed, before the send
\* or while it is awaited; both outcomes of a send after that point are
\* there.
query_send_can_fail == q_ended

\* handle_ws takes the range of a full response and comes to the await of
\* the send of it (lines 181-188 and 195-202); the task panics if the
\* range does.
Reply(msg, response, scanned) ==
  LET to == IF msg.to = None THEN response.total_display_lines ELSE msg.to[1]
      r == range(response, msg.from, to)
  IN IF r.ok
       THEN /\ q_pc' = "sending"
            /\ q_send' = [frame |-> JsonRpcResponse(msg.id, r.value),
                          hist |-> [req |-> msg, scanned |-> scanned,
                                    total |-> r.value.total_display_lines,
                                    data |-> fs_data]]
       ELSE /\ q_pc' = "panicked"
            /\ UNCHANGED q_send

\* tx.send(..).await? (lines 183-188, 197-202) comes back: the frame has
\* gone out and the loop goes round, or the send has failed and handle_ws
\* returns its Err.  Until it does the task is suspended with the message
\* taken and, after a scan, the cache written.
QuerySendFrame ==
  /\ q_pc = "sending"
  /\ \/ /\ q_out' = Append(q_out, q_send.frame)
        /\ q_hist' = Append(q_hist, q_send.hist)
        /\ q_pc' = "recv"
        /\ UNCHANGED q_err
     \/ /\ query_send_can_fail
        /\ QueryCloseWith("send", q_send.frame.id)
        /\ UNCHANGED <<q_out, q_hist>>
  /\ q_send' = NoQuerySend
  /\ UNCHANGED <<varsF, varsT, varsP, q_last, q_inbox, q_ended, q_sent, q_req, q_rest,
                 q_off, q_seen, q_quiet, q_lln, q_rows, q_total>>

\* One turn of handle_ws's loop for a message (lines 171-194): an Err of the
\* transport ends the loop, a binary frame is skipped, a query like the
\* cached one is answered from the cache, any other query starts query(),
\* which opens the file.
QueryHandleMessage ==
  /\ q_pc = "recv"
  /\ q_inbox # <<>>
  /\ q_inbox' = Tail(q_inbox)
  /\ LET msg == Head(q_inbox) IN
     IF msg.kind = "error"
       THEN /\ q_pc' = "returned"
            /\ UNCHANGED <<q_out, q_err, q_req, q_rest, q_off, q_seen, q_quiet, q_lln,
                           q_rows, q_total, q_hist, q_send>>
     ELSE IF msg.kind = "binary"
       THEN UNCHANGED <<q_out, q_pc, q_err, q_req, q_rest, q_off, q_seen, q_quiet, q_lln,
                        q_rows, q_total, q_hist, q_send>>
     ELSE IF msg.kind = "bad_json"
       THEN /\ QueryCloseWith("json", 0)
            /\ UNCHANGED <<q_out, q_req, q_rest, q_off, q_seen, q_quiet, q_lln, q_rows,
                           q_total, q_hist, q_send>>
     ELSE IF q_last # None /\ same_query(msg, q_last[1].args)
       THEN /\ Reply(msg, q_last[1].response, FALSE)
            /\ UNCHANGED <<q_out, q_err, q_req, q_rest, q_off, q_seen, q_quiet, q_lln,
                           q_rows, q_total, q_hist>>
     ELSE IF msg.filter # None /\ ~regex_new_ok(msg.filter[1])
       THEN /\ QueryCloseWith("regex", msg.id)
            /\ UNCHANGED <<q_out, q_req, q_rest, q_off, q_seen, q_quiet, q_lln, q_rows,
                           q_total, q_hist, q_send>>
     ELSE IF ~file_open(msg.log_file)
       THEN /\ QueryCloseWith("open", msg.id)
            /\ UNCHANGED <<q_out, q_req, q_rest, q_off, q_seen, q_quiet, q_lln, q_rows,
                           q_total, q_hist, q_send>>
     ELSE /\ q_pc' = "scan"
          /\ q_req' = Some(msg)
          /\ q_rest' = <<>>
          /\ q_off' = 0
          /\ q_seen' = <<>>
          /\ q_quiet' = TRUE
          /\ q_lln' = 0
          /\ q_rows' = <<>>
          /\ q_total' = 0
          /\ UNCHANGED <<q_out, q_err, q_hist, q_send>>
  /\ UNCHANGED <<varsF, varsT, varsP, q_last, q_ended, q_sent>>

\* The inbound stream has ended: the loop ends and handle_ws returns Ok.
QueryStreamEnded ==
  /\ q_pc = "recv"
  /\ q_inbox = <<>>
  /\ q_ended
  /\ q_pc' = "returned"
  /\ UNCHANGED <<varsF, varsT, varsP, q_last, q_inbox, q_ended, q_sent, q_out, q_err,
                 q_req, q_rest, q_off, q_seen, q_quiet, q_lln, q_rows, q_total, q_hist, q_send>>

\* The bytes of the file from the reader's offset on.
QueryBytesLeft == Max(ByteLen(fs_data) - q_off, 0)

\* The reader holds a whole line, or the end of the file closes the text
\* it holds.
line_ready == IndexOf(q_rest, "LF") # 0 \/ (q_rest # <<>> /\ QueryBytesLeft = 0)

\* The BufReader of query holds no line feed and reads on (line 141): it
\* takes the bytes the file holds from its offset, as the file is now; a
\* line of them that is no UTF-8 is the Err of `line?` (line 142).
ScanRead ==
  /\ q_pc = "scan"
  /\ IndexOf(q_rest, "LF") = 0
  /\ QueryBytesLeft > 0
  /\ IF ReadFrom(q_off).ok
       THEN /\ q_rest' = q_rest \o ReadFrom(q_off).text
            /\ q_off' = ByteLen(fs_data)
            /\ UNCHANGED <<q_pc, q_err>>
       ELSE /\ QueryCloseWith("utf8", q_req[1].id)
            /\ UNCHANGED <<q_rest, q_off>>
  /\ UNCHANGED <<varsF, varsT, varsP, q_last, q_inbox, q_ended, q_sent, q_out, q_req,
                 q_seen, q_quiet, q_lln, q_rows, q_total, q_hist, q_send>>

\* query's loop at a line (lines 141-144): the reader gives out the text up
\* to the first line feed, or at the end of the file the text it holds,
\* and parse_log_line is called for it.
ScanLine ==
  /\ q_pc = "scan"
  /\ line_ready
  /\ LET line == Head(reader_lines(q_rest))
         i == IndexOf(q_rest, "LF")
     IN /\ p_in' = [lln |-> q_lln, cols |-> q_req[1].cols, line |-> line,
                    filter |-> q_req[1].filter]
        /\ q_seen' = Append(q_seen, line)
        /\ q_rest' = IF i = 0 THEN <<>> ELSE Drop(q_rest, i)
  /\ p_pc' = "call"
  /\ q_pc' = "parsing"
  /\ UNCHANGED <<varsF, varsT, p_b, p_done, p_todo, p_stack, p_ret, q_last, q_inbox,
                 q_ended, q_sent, q_out, q_err, q_req, q_off, q_quiet, q_lln, q_rows,
                 q_total, q_hist, q_send>>

\* query's loop after parse_log_line has returned: Err ends handle_ws,
\* Ok(Some(parsed)) extends the rows and the total (lines 143-148).
ScanLineDone ==
  /\ q_pc = "parsing"
  /\ p_pc = "done"
  /\ p_pc' = "idle"
  /\ IF p_ret.res = "overflow"
       THEN /\ q_pc' = "dead"
            /\ UNCHANGED <<q_err, q_lln, q_rows, q_total>>
     ELSE IF p_ret.res = "err"
       THEN /\ QueryCloseWith("parse", q_req[1].id)
            /\ UNCHANGED <<q_lln, q_rows, q_total>>
     ELSE /\ q_pc' = "scan"
          /\ q_lln' = q_lln + 1
          /\ q_total' = IF p_ret.some THEN q_total + Len(p_ret.lines) ELSE q_total
          /\ q_rows' = IF p_ret.some THEN q_rows \o p_ret.lines ELSE q_rows
          /\ UNCHANGED q_err
  /\ UNCHANGED <<varsF, varsT, p_in, p_b, p_done, p_todo, p_stack, p_ret, q_last, q_inbox,
                 q_ended, q_sent, q_out, q_req, q_rest, q_off, q_seen, q_quiet, q_hist, q_send>>

\* The reader is at the end of the file with no text left: query returns
\* its full response; handle_ws caches it with the query and comes to the
\* await of the send of the range asked for (lines 150 and 195-202).
ScanDone ==
  /\ q_pc = "scan"
  /\ q_rest = <<>>
  /\ QueryBytesLeft = 0
  /\ LET response == QueryResponse(q_total, q_rows, 0) IN
     /\ q_last' = Some([args |-> q_req[1], response |-> response])
     /\ Reply(q_req[1], response, TRUE)
  /\ q_req' = None
  /\ q_rows' = <<>>
  /\ q_total' = 0
  /\ q_lln' = 0
  /\ q_off' = 0
  /\ q_seen' = <<>>
  /\ q_quiet' = FALSE
  /\ UNCHANGED <<varsF, varsT, varsP, q_inbox, q_ended, q_sent, q_out, q_err, q_rest,
                 q_hist>>

\* The server before any connection: no call of parse_log_line, an empty
\* log file, a tailing session and a query session that have received nothing.
InitServer ==
  /\ p_pc = "idle"
  /\ p_in = [lln |-> 0, cols |-> 0, line |-> <<>>, filter |-> None]
  /\ p_b = NewBuilder(0, 0)
  /\ p_done = <<>>
  /\ p_todo = <<>>
  /\ p_stack = <<>>
  /\ p_ret = NoRet
  /\ fs_exists = TRUE
  /\ fs_data = <<>>
  /\ fs_truncs = 0
  /\ ctx = None
  /\ chan = [value |-> None, changed |-> FALSE]
  /\ w_modify = 0
  /\ w_remove = FALSE
  /\ inbox = <<>>
  /\ rx_ended = FALSE
  /\ c_sent = 0
  /\ out = <<>>
  /\ s_pc = "select"
  /\ s_err = NoErr
  /\ t_rest = <<>>
  /\ t_line = <<>>
  /\ t_lines = <<>>
  /\ t_seen = <<>>
  /\ t_raw = 0
  /\ t_by = <<>>
  /\ t_rd = 0
  /\ t_fd = NoFile
  /\ t_req = NoRequest
  /\ t_send = NoSend
  /\ t_quiet = FALSE
  /\ q_last = None
  /\ q_inbox = <<>>
  /\ q_ended = FALSE
  /\ q_sent = 0
  /\ q_out = <<>>
  /\ q_pc = "recv"
  /\ q_err = NoErr
  /\ q_req = None
  /\ q_rest = <<>>
  /\ q_off = 0
  /\ q_seen = <<>>
  /\ q_quiet = FALSE
  /\ q_lln = 0
  /\ q_rows = <<>>
  /\ q_total = 0
  /\ q_hist = <<>>
  /\ q_send = NoQuerySend

\* A call of parse_log_line made by a session.
ParseStep == NextP /\ UNCHANGED <<varsF, varsT, varsQ>>

NextT ==
  \/ FileAppend \/ FileTruncate \/ FileRemove \/ WatcherModify \/ WatcherRemove
  \/ ClientSend \/ ClientClose \/ ClientAbort
  \/ HandleMessage \/ StartWatch \/ SendFrame \/ StreamEnded \/ HandleChanged
  \/ OpenFile \/ SeekFile \/ ReadBytes \/ ReadContents
  \/ ReadLine \/ ReadLineDone \/ ReadDone
  \/ ParseStep

\* The tailing session, its client, the log file and its watcher.
SpecTail == InitServer /\ [][NextT]_vars

\* A step of the session's task: the loop of handle_ws and what it awaits.
SessionStep ==
  \/ HandleMessage \/ StartWatch \/ SendFrame \/ HandleChanged
  \/ OpenFile \/ SeekFile \/ ReadBytes \/ ReadContents
  \/ ReadLine \/ ReadLineDone \/ ReadDone
  \/ ParseStep

NextTF == FileAppendLine \/ ClientStart \/ WatcherModify \/ SessionStep

\* The tailing session under fair scheduling, with a client that stays
\* connected and asks for rows of two columns or of one, and a writer that
\* appends whole lines (the writer of parts of lines is in SpecTail).
\* WF_vars(SessionStep): handle_ws is one task of the runtime
\* (ws.on_upgrade); each step of SessionStep is the task going on from an
\* await that has completed (a message received, the channel's changed(),
\* File::open, seek and the reads, which the blocking pool completes, a
\* send to a client that is connected), and the runtime polls a task that
\* has been woken; a step stays enabled until the task takes it, because
\* the task is the only one to take messages, to mark the channel's value
\* seen and to move its own position.  WF_vars(WatcherModify): the
\* watcher's thread runs the callback of lines 56-61 for every event it
\* holds, and an event stays held until it has.
SpecTailFair ==
  InitServer /\ [][NextTF]_vars /\ WF_vars(SessionStep) /\ WF_vars(WatcherModify)

NextTC == NextTF \/ ClientClose \/ ClientAbort \/ StreamEnded

\* The tailing session under fair scheduling with a client that may close
\* the connection or whose transport may fail: the fairness of SpecTailFair,
\* and the runtime goes on polling the session's task also when the turn
\* it takes round the loop changes nothing (rx.next() on the ended stream
\* is ready at once).  A send after the close may fail and end handle_ws
\* (send_can_fail); no fairness says that it does.
SpecTailClose ==
  InitServer /\ [][NextTC]_vars
    /\ WF_vars(SessionStep \/ StreamEnded) /\ WF_vars(WatcherModify)

NextQ ==
  \/ FileAppend \/ FileTruncate \/ FileRemove
  \/ QueryClientSend \/ QueryClientClose \/ QueryClientAbort
  \/ QueryHandleMessage \/ QueryStreamEnded
  \/ ScanRead \/ ScanLine \/ ScanLineDone \/ ScanDone \/ QuerySendFrame
  \/ ParseStep

\* The query session, its client and the log file.
SpecQuery == InitServer /\ [][NextQ]_vars

\* ================================================================ specifications
\* Calls of parse_log_line on enumerated arguments.
SpecParse == InitP /\ [][NextP /\ UNCHANGED <<varsF, varsT, varsQ>>]_vars

\* ------------------------------------------------- properties of wrapping
\* The text of a row: its spans' texts, in order.
RowText(row) == Concat([i \in 1..Len(row.spans) |-> row.spans[i].text])

\* The text of all the rows, in order.
Melt(lines) == Concat([i \in 1..Len(lines) |-> RowText(lines[i])])

Returned == p_pc = "done" /\ p_ret.res = "ok" /\ p_ret.some

HasGlyph(text, g) == \E i \in 1..Len(text) : text[i] = g

\* C7: with no filter, the spans of the rows parse_log_line returns, put
\* together in order, are the line it was given.
RoundTrip == (Returned /\ p_in.filter = None) => Melt(p_ret.lines) = p_in.line

\* C7's case: a line with a space and a wide character, returned on several rows.
RoundTripWitness ==
  /\ Returned /\ p_in.filter = None /\ p_in.cols >= 1
  /\ Len(p_ret.lines) >= 3
  /\ HasGlyph(p_in.line, " ") /\ HasGlyph(p_in.line, Wide)

\* A row is within the columns, or is one grapheme cluster wider than them.
RowWithin(row, cols) ==
  \/ width(RowText(row)) <= cols
  \/ Len(RowText(row)) = 1 /\ GlyphWidth(RowText(row)[1]) > cols

\* C8: every row the builder has closed, and every row returned, is at most
\* cols cells wide, unless it is a single grapheme cluster wider than cols;
\* and the row being filled is within cols.
WidthBound ==
  /\ \A i \in 1..Len(p_b.lines) : RowWithin(p_b.lines[i], p_b.cols)
  /\ \A i \in 1..Len(p_ret.lines) : RowWithin(p_ret.lines[i], p_in.cols)
  /\ p_b.cum_width <= p_b.cols

\* C8's case: a line with no space, wider than the columns, has been cut by
\* hard breaks into rows, one of which holds a wide character and fills the
\* columns exactly.
WidthBoundWitness ==
  /\ Returned /\ p_in.filter = None /\ p_in.cols >= 2
  /\ ~HasGlyph(p_in.line, " ") /\ width(p_in.line) > p_in.cols
  /\ Len(p_ret.lines) >= 2
  /\ \E i \in 1..Len(p_ret.lines) :
       /\ width(RowText(p_ret.lines[i])) = p_in.cols
       /\ HasGlyph(RowText(p_ret.lines[i]), Wide)

\* A non-empty span has been passed to push_span.
PushedNonEmpty == \E i \in 1..Len(p_done) : p_done[i].text # <<>>

\* C9: with zero columns, the push of a non-empty span ends and returns Err.
ZeroColsFailsFast ==
  (p_in.cols = 0 /\ PushedNonEmpty)
    => /\ p_ret.res # "overflow"
       /\ Len(p_stack) <= Len(p_done[Len(p_done)].text)
       /\ p_pc = "done" => p_ret.res = "err"

\* C10: with one column or more, the invocations of push_span nest no deeper
\* than the pushed span has grapheme clusters, and the stack is never outgrown.
WrapDepthBounded ==
  (p_in.cols >= 1 /\ p_done # <<>>)
    => /\ p_ret.res # "overflow"
       /\ Len(p_stack) <= Len(p_done[Len(p_done)].text)

\* ------------------------------------------------ properties of the tail
IsPrefix(a, b) == Len(a) <= Len(b) /\ SubSeq(b, 1, Len(a)) = a

RECURSIVE TerminatedLines(_)
\* The terminated lines of a file's bytes, in order, without their
\* terminators (a line feed, after any carriage returns).
TerminatedLines(data) ==
  LET i == IndexOf(data, "LF")
  IN IF i = 0 THEN <<>>
     ELSE <<TrimLine(Take(data, i))>> \o TerminatedLines(Drop(data, i))

\* The byte offsets of a file at which a line starts: 0 and just past each
\* line feed.
LineBoundaries(data) == {0} \cup {i \in 1..Len(data) : data[i] = "LF"}

CountKind(msgs, kind) == Cardinality({i \in 1..Len(msgs) : msgs[i].kind = kind})

\* C1: the lines a tail context has passed to the parser are the first
\* terminated lines of the (append-only) file, each once and in file order.
ExactlyOnceInOrder ==
  (ctx # None /\ fs_truncs = 0) => IsPrefix(t_seen, TerminatedLines(fs_data))

\* C2: the cursor of an attached context is at a line boundary of the file,
\* and is the number of raw bytes, terminators included, of the segments
\* consumed so far.
CursorAtLineBoundary ==
  (ctx # None /\ fs_truncs = 0)
    => (ctx[1].pos \in LineBoundaries(fs_data) /\ ctx[1].pos = t_raw)

\* The file was removed under an attached tail, the watcher has run for every
\* event, and the session has nothing left to receive.
RemovalSettled ==
  /\ ctx # None /\ ~fs_exists
  /\ w_modify = 0 /\ ~w_remove
  /\ s_pc = "select" /\ inbox = <<>> /\ ~rx_ended /\ ~chan.changed

\* C3: once the removal of the watched file has been handled, the session has
\* sent `done` exactly once, and no `tail` follows a `done`.
DoneOnceAfterRemoval ==
  /\ RemovalSettled => CountKind(out, "done") = 1
  /\ \A i \in 1..Len(out) : \A j \in 1..Len(out) :
       (out[i].kind = "done" /\ i < j) => out[j].kind # "tail"

\* C4: a request whose filter is no regular expression, or whose file's
\* metadata cannot be read, is answered by an error response with its id,
\* and the session goes on (s_err is the error handle_ws_message raised and
\* the id of the request it raised it for).
ProtocolErrorKeepsSession ==
  s_err.kind \in {"regex", "metadata"}
    => /\ s_pc # "closed"
       /\ \E i \in 1..Len(out) :
            out[i].kind = "response" /\ out[i].id = s_err.id /\ out[i].error # None

\* ----------------------------------------------- properties of the query
\* Two queries with the same cols, filter and log_file.
SameKey(a, b) == a.cols = b.cols /\ a.filter = b.filter /\ a.log_file = b.log_file

\* C5: of two queries answered one after the other with the same cols, filter
\* and log_file, the second is answered without a scan of the file, and with
\* the total the first was answered with.
CacheHitNoRescan ==
  \A i \in 1..(Len(q_hist) - 1) :
    SameKey(q_hist[i].req, q_hist[i + 1].req)
      => /\ ~q_hist[i + 1].scanned
         /\ q_hist[i + 1].total = q_hist[i].total

\* C5's case: two queries that differ in their row range only have been
\* answered, the first by a scan that found rows, and the file has since
\* grown to more lines than the rows of that scan.
CacheHitWitness ==
  /\ Len(q_hist) = 2
  /\ SameKey(q_hist[1].req, q_hist[2].req)
  /\ <<q_hist[1].req.from, q_hist[1].req.to>> # <<q_hist[2].req.from, q_hist[2].req.to>>
  /\ q_hist[1].scanned
  /\ q_hist[1].total >= 1
  /\ q_hist[1].req.filter = None
  /\ Len(reader_lines(fs_data)) > q_hist[1].total

\* The rows of a full response with indices in [from, to) and in [0, total),
\* with the offset min(from, total).
RowsBetween(full, from, to) ==
  LET lo == Min(from, full.total_display_lines)
      hi == Min(to, full.total_display_lines)
  IN QueryResponse(full.total_display_lines,
                   [k \in 1..Max(hi - lo, 0) |-> full.display_lines[lo + k]],
                   lo)

\* C6: taking the range of a response never panics, and when the session
\* is back at its loop the last response sent holds the rows of the cached
\* full response between the `from` and the `to` (or the total) of its
\* query.
RangeClamps ==
  /\ q_pc # "panicked"
  /\ (q_pc = "recv" /\ q_hist # <<>> /\ q_last # None)
       => LET req == q_hist[Len(q_hist)].req
              full == q_last[1].response
              to == IF req.to = None THEN full.total_display_lines ELSE req.to[1]
          IN q_out[Len(q_out)].result[1] = RowsBetween(full, req.from, to)

\* ------------------------------------------------------------ the tail loop
\* The number of responses among the first i messages sent: the context that
\* was current when the i-th message was sent.
ContextAt(i) == CountKind(SubSeq(out, 1, i), "response")

\* C11: the loop takes a change notification only when no inbound message
\* waits, so a request pending together with a notification is handled
\* first; and every `tail` sent was computed from the context that is
\* current when it is sent, never from one a request has replaced.
RequestBeforeChange ==
  /\ [][(chan.changed /\ ~chan'.changed) => inbox = <<>>]_vars
  /\ [](\A i \in 1..Len(out) : out[i].kind = "tail" => t_by[i] = ContextAt(i))

\* A request was handled while the first notification of the context before
\* it was still pending, and a `tail` with rows of the new context followed.
RequestBeforeChangeWitness ==
  \E i \in 1..Len(out) :
    /\ i + 2 <= Len(out)
    /\ out[i].kind = "response" /\ out[i + 1].kind = "response"
    /\ out[i + 2].kind = "tail" /\ out[i + 2].display_lines # <<>>

\* The session takes a request off the inbound stream and goes on to set
\* the watch for it.
RequestTaken == s_pc = "select" /\ s_pc' = "watching"

\* The session has set the watch for the request it handles and goes on to
\* send the response.
RequestHandled == s_pc = "watching" /\ s_pc' = "sending"

\* A send of the tailing session has come back and the session stays open.
FrameSent == s_pc = "sending" /\ s_pc' = "select"

\* C12: a request that is handled with success replaces the context by one
\* for the request's file, columns and filter with pos = 0 and
\* lines_read = 0 and goes on to send the response with the request's id,
\* which is the frame that goes out next, with the context as it was made;
\* and a `tail` of a context is sent only after the response that made it.
StartTailResets ==
  /\ [][RequestTaken =>
          /\ inbox # <<>> /\ inbox' = Tail(inbox)
          /\ Head(inbox).kind = "request"
          /\ t_req'.msg = Head(inbox)]_vars
  /\ [][RequestHandled =>
          /\ ctx' = Some([cols |-> t_req.msg.cols, filter |-> t_req.msg.filter,
                          file |-> t_req.msg.log_file, pos |-> 0, lines_read |-> 0])
          /\ t_send'.frame = [kind |-> "response", id |-> t_req.msg.id,
                               result |-> Some("unit"), error |-> None]
          /\ out' = out]_vars
  /\ [][(FrameSent /\ t_send.frame.kind = "response")
          => (out' = Append(out, t_send.frame) /\ ctx' = ctx)]_vars
  /\ [](\A i \in 1..Len(out) :
          out[i].kind = "tail" => (t_by[i] >= 1 /\ ContextAt(i) >= t_by[i]))

\* A second request has just been handled, after the context it replaces had
\* moved its cursor and sent rows.
StartTailResetsWitness ==
  /\ Len(out) >= 3
  /\ out[Len(out)].kind = "response" /\ out[Len(out)].id = 2
  /\ out[Len(out) - 1].kind = "tail" /\ out[Len(out) - 1].display_lines # <<>>
  /\ ctx # None /\ ctx[1].pos = 0 /\ ctx[1].lines_read = 0

\* -------------------------------------------------------------- the read
\* C13: read_to consumes terminated segments only: the segment it has the
\* parser work on ends in a line feed, lines_read counts the segments handed
\* to the parser and no other, and when its loop stops, what is left holds
\* no line feed and the cursor stays where it was.
PartialLineNotConsumed ==
  /\ [](s_pc = "parsing" => (t_line # <<>> /\ t_line[Len(t_line)] = "LF"))
  /\ [](ctx # None =>
          Len(t_seen) = ctx[1].lines_read + (IF s_pc = "parsing" THEN 1 ELSE 0))
  /\ [][(s_pc = "reading" /\ s_pc' = "sending")
          => (ctx' = ctx /\ IndexOf(t_rest, "LF") = 0)]_vars

\* The session has read a file that ends in a segment with no terminator:
\* it sent the rows of the lines before it, and the cursor is short of the
\* length it was notified of.
PartialLineNotConsumedWitness ==
  /\ fs_truncs = 0 /\ fs_data # <<>> /\ fs_data[Len(fs_data)] = "a"
  /\ s_pc = "select"
  /\ ctx # None /\ chan.value = Some(ByteLen(fs_data)) /\ ~chan.changed
  /\ out[Len(out)].kind = "tail" /\ out[Len(out)].display_lines # <<>>
  /\ ctx[1].lines_read = Len(TerminatedLines(fs_data))

\* C14: as long as no request replaces the context, its pos and its
\* lines_read never decrease.  The one step that replaces a context is the
\* one that handles a request by setting the watch.
CursorMonotonic ==
  [][(ctx # None /\ ctx' # None /\ ~RequestHandled)
      => (ctx'[1].pos >= ctx[1].pos /\ ctx'[1].lines_read >= ctx[1].lines_read)]_vars

\* A context that has consumed two lines and moved its cursor has kept the
\* cursor through a truncation of the file and the read that followed.
CursorMonotonicWitness ==
  /\ ctx # None /\ ctx[1].lines_read >= 2 /\ ctx[1].pos >= 2
  /\ fs_truncs = 1 /\ fs_data = <<>>
  /\ chan.value = Some(0) /\ ~chan.changed

\* The loop takes the notification of a length that is not past the cursor.
StaleLengthTaken ==
  /\ ctx # None /\ chan.changed /\ ~chan'.changed
  /\ chan.value # None /\ chan.value[1] <= ctx[1].pos

\* C19: on a notification Some(new_length) with new_length <= pos the
\* session goes straight to the send of a `tail` with no rows, with no read
\* of the file; through that step and through the send pos and lines_read
\* stay as they are, and the frame that goes out is that `tail`.
ShorterLengthIgnored ==
  /\ [][StaleLengthTaken
          => (t_send'.frame = [kind |-> "tail", display_lines |-> <<>>]
              /\ ctx' = ctx /\ out' = out /\ s_pc' = "sending")]_vars
  /\ [][(s_pc = "sending" /\ t_send.frame.kind = "tail")
          => (ctx' = ctx /\ (out' = out \/ out' = Append(out, t_send.frame)))]_vars

\* The file was truncated under a context that had sent rows and moved its
\* cursor; the notification of the length 0 was answered by an empty `tail`.
ShorterLengthIgnoredWitness ==
  /\ fs_truncs = 1 /\ fs_data = <<>>
  /\ ctx # None /\ ctx[1].pos >= 1
  /\ chan.value = Some(0) /\ ~chan.changed
  /\ Len(out) >= 3
  /\ out[Len(out)] = [kind |-> "tail", display_lines |-> <<>>]
  /\ out[Len(out) - 1].kind = "tail" /\ out[Len(out) - 1].display_lines # <<>>

\* C15: when parse_log_line has failed for a line of a read, the read has
\* failed with it and the session has ended with the error; the session
\* does not go on past the line.
ParseFailureFailsRead ==
  (s_pc # "parsing" /\ p_pc = "idle" /\ p_ret.res = "err") => s_pc = "closed"

RECURSIVE IsSubseq(_, _)
\* The items of a occur in b, in their order.
IsSubseq(a, b) ==
  IF a = <<>> THEN TRUE
  ELSE IF b = <<>> THEN FALSE
  ELSE IF Head(a) = Head(b) THEN IsSubseq(Tail(a), Tail(b))
  ELSE IsSubseq(a, Tail(b))

\* C18: with a client that stays connected and a writer that appends whole
\* lines and then stops, a session with a context ends up having handed
\* every terminated line of the file to the parser.
NoGrowthLost ==
  <>[](ctx # None => IsSubseq(TerminatedLines(fs_data), t_seen))

\* ------------------------------------------------------- the query's scan
\* The pattern occurs in the text.
Occurs(pattern, text) ==
  \E i \in 0..(Len(text) - Len(pattern)) : SubSeq(text, i + 1, i + Len(pattern)) = pattern

\* The scan has taken a line whose text after the header the filter does
\* not match, and goes on.
UnmatchedLineScanned ==
  /\ q_pc = "parsing" /\ q_pc' = "scan"
  /\ q_req[1].filter # None
  /\ ~Occurs(q_req[1].filter[1], remainder(p_in.line, parse_header(p_in.line)))

\* C16: in a query's scan a line that the filter does not match adds no row
\* and leaves the total as it is, but is counted as a logical line: every
\* row of the scan carries the index of its line among the lines the scan
\* has read, and that line is one the filter matches; and the lines the
\* scan has read are the first lines of the file, while no writer has
\* changed the file since the scan opened it.
FilteredLineCounted ==
  /\ [][UnmatchedLineScanned
          => (q_rows' = q_rows /\ q_total' = q_total /\ q_lln' = q_lln + 1)]_vars
  /\ [](q_pc \in {"scan", "parsing"} =>
          \A k \in 1..Len(q_rows) :
            /\ q_rows[k].lln < q_lln
            /\ q_req[1].filter # None =>
                 Occurs(q_req[1].filter[1], q_seen[q_rows[k].lln + 1]))
  /\ []((q_pc \in {"scan", "parsing"} /\ q_quiet) =>
          q_seen = Take(reader_lines(fs_data), Len(q_seen)))

\* A scan with a filter has reached the end of a file of two lines: the
\* first was not matched, and the one row is of the second, numbered 1.
FilteredLineCountedWitness ==
  /\ q_pc = "scan" /\ q_rest = <<>> /\ q_quiet
  /\ q_req[1].filter # None
  /\ q_lln = 2 /\ q_total = 1
  /\ Len(q_rows) = 1 /\ q_rows[1].lln = 1

\* ------------------------------------------------------- the query's cache
\* The session takes a query off the inbound stream while it holds a cached
\* one with another cols, filter or log_file, and stays open.
OtherQueryTaken ==
  /\ q_pc = "recv" /\ q_inbox # <<>> /\ q_inbox' = Tail(q_inbox)
  /\ Head(q_inbox).kind = "query"
  /\ q_last # None /\ ~SameKey(Head(q_inbox), q_last[1].args)
  /\ q_pc' # "closed"

\* C20: the cache changes only at the end of the scan of a query whose
\* cols, filter or log_file differ from the cached query's, and becomes
\* that query's parameters with all the rows of its scan; a query like the
\* cached one leaves the cache alone, and any other query is scanned.
CacheReplacedWholesale ==
  /\ [][q_last' # q_last
          => /\ q_pc = "scan" /\ q_req # None
             /\ q_last # None => ~SameKey(q_req[1], q_last[1].args)
             /\ q_last' = Some([args |-> q_req[1],
                                response |-> [total_display_lines |-> q_total,
                                              display_lines |-> q_rows,
                                              row_offset |-> 0]])]_vars
  /\ [][OtherQueryTaken => q_pc' = "scan"]_vars

\* A second query, with other parameters than the cached one and asking for
\* the first row only, has replaced the cache: the cache holds its
\* parameters and more rows than the response that was sent.
CacheReplacedWholesaleWitness ==
  /\ Len(q_hist) = 2 /\ q_hist[1].scanned /\ q_hist[2].scanned
  /\ ~SameKey(q_hist[1].req, q_hist[2].req)
  /\ q_last # None /\ q_last[1].args = q_hist[2].req
  /\ q_hist[2].req.to = Some(1)
  /\ Len(q_out[Len(q_out)].result[1].display_lines)
       < Len(q_last[1].response.display_lines)

\* ------------------------------------------------------- the filter's spans
IsTextSpan(span) == span.label \in {"Text", "TextMatch"}
IsNonEmptySpan(span) == span.text # <<>>

\* The spans parse_log_line passes to push_span for the text after the
\* header, pushed or still to push, in order.
TextCalls == SelectSeq(p_done \o p_todo, IsTextSpan)

\* Those of them that are not empty: the ones push_span does not drop.
TextSpans == SelectSeq(TextCalls, IsNonEmptySpan)

\* C17: when the filter matches, the non-empty spans pushed for the text
\* after the header are TextMatch spans holding a match each and Text spans
\* holding the text between matches (so no two Text spans are neighbours
\* and none holds a match), and put together they are that text.
MatchSpansCoverText ==
  (p_pc = "text" /\ p_in.filter # None) =>
    /\ Concat([i \in 1..Len(TextSpans) |-> TextSpans[i].text])
         = remainder(p_in.line, parse_header(p_in.line))
    /\ \A i \in 1..Len(TextSpans) :
         /\ TextSpans[i].label = "TextMatch" => TextSpans[i].text = p_in.filter[1]
         /\ TextSpans[i].label = "Text" => ~Occurs(p_in.filter[1], TextSpans[i].text)
         /\ (i < Len(TextSpans) /\ TextSpans[i].label = "Text")
              => TextSpans[i + 1].label = "TextMatch"

\* All spans of a text with two matches side by side, a gap before them and
\* text after them have been pushed: the empty gap between the matches was
\* passed to push_span and dropped.
MatchSpansCoverTextWitness ==
  /\ p_pc = "text" /\ p_in.filter # None /\ p_todo = <<>> /\ p_stack = <<>>
  /\ Len(TextCalls) > Len(TextSpans)
  /\ Len(TextSpans) = 4
  /\ TextSpans[1].label = "Text" /\ TextSpans[2].label = "TextMatch"
  /\ TextSpans[3].label = "TextMatch" /\ TextSpans[4].label = "Text"

\* ------------------------------------------------------------- soft breaks
\* The texts of the spans parse_log_line has passed to push_span, in order.
PushedTexts == [i \in 1..Len(p_done) |-> p_done[i].text]

\* Where the k-th of these spans starts in all of their text.
SpanStart(k) == Len(Concat(SubSeq(PushedTexts, 1, k - 1)))

\* Where the r-th returned row ends in the text of all the rows.
RowEnd(r) == Len(Melt(SubSeq(p_ret.lines, 1, r)))

\* The maximal run of characters other than the space that holds the
\* positions c and c + 1 of a text, neither of which is a space.
RunAt(text, c) ==
  LET lo == CHOOSE i \in 1..c :
              /\ \A j \in i..c : text[j] # " "
              /\ i = 1 \/ text[i - 1] = " "
      hi == CHOOSE i \in (c + 1)..Len(text) :
              /\ \A j \in (c + 1)..i : text[j] # " "
              /\ i = Len(text) \/ text[i + 1] = " "
  IN SubSeq(text, lo, hi)

\* The two rows of the sample line at 40 columns.
SampleRows == << SubSeq(SampleLine, 1, 32), SubSeq(SampleLine, 33, Len(SampleLine)) >>

\* C21: the rows returned hold the text of the spans pushed, and where a
\* row ends inside a span between two characters that are not spaces, the
\* run of such characters around the place is wider than the columns; the
\* sample line at 40 columns comes back as its two rows.
RunsNotSplit ==
  Returned =>
    /\ Melt(p_ret.lines) = Concat(PushedTexts)
    /\ \A r \in 1..(Len(p_ret.lines) - 1) : \A k \in 1..Len(p_done) :
         LET c == RowEnd(r) - SpanStart(k)
             t == p_done[k].text
         IN (0 < c /\ c < Len(t) /\ t[c] # " " /\ t[c + 1] # " ")
              => width(RunAt(t, c)) > p_in.cols
    /\ (p_in.line = SampleLine /\ p_in.cols = 40 /\ p_in.filter = None)
         => [i \in 1..Len(p_ret.lines) |-> RowText(p_ret.lines[i])] = SampleRows

\* The sample line has come back at 40 columns: the row was flushed before
\* "Petersburg,", which did not fit in what was left of the first row.
RunsNotSplitWitness ==
  /\ Returned /\ p_in.line = SampleLine /\ p_in.cols = 40 /\ p_in.filter = None
  /\ Len(p_ret.lines) = 2
  /\ width(RowText(p_ret.lines[1])) + 11 > p_in.cols

\* parse_log_line has returned the Err of a push_span, not that of the
\* timestamp's conversion.
LayoutError ==
  /\ p_pc = "done" /\ p_ret.res = "err"
  /\ ~(parse_header(p_in.line).matched /\ ~ts_conv_ok(parse_header(p_in.line).dt))

\* C22: with at least one column, wrapping fails with a layout error only
\* for a line that holds a grapheme cluster wider than the columns.
LayoutErrorOnlyForWideGlyph ==
  (LayoutError /\ p_in.cols >= 1)
    => \E i \in 1..Len(p_in.line) : GlyphWidth(p_in.line[i]) > p_in.cols

\* ------------------------------------------------------ the closed transport
\* C23: once the inbound stream has ended, the loop of the tail session
\* comes to an end.
TransportCloseEndsLoop == rx_ended ~> (s_pc # "select")

\* ------------------------------------------- parse_log_line and query, whole
RECURSIVE push_spans(_, _)
RECURSIVE pushed_then(_, _)
\* push_span for each span of todo in turn, each with the calls it makes in
\* their order, up to the first Err (ok = FALSE).
push_spans(b, todo) ==
  IF todo = <<>> THEN [ok |-> TRUE, b |-> b]
  ELSE pushed_then(push_span(b, Head(todo)), Tail(todo))

\* After one invocation of push_span: its Err, or its calls and then the rest.
pushed_then(r, rest) ==
  IF ~r.ok THEN [ok |-> FALSE, b |-> r.b] ELSE push_spans(r.b, r.calls \o rest)

\* `Ok(Some(ret.build()))`, or the Err of a push.
built(pushed) ==
  IF pushed.ok THEN Ret("ok", TRUE, build(pushed.b)) ELSE Ret("err", FALSE, <<>>)

\* parse_log_line from the filter on (lines 211-235), after the header's spans.
parse_text(pushed, rem, filter) ==
  IF ~pushed.ok THEN Ret("err", FALSE, <<>>)
  ELSE IF filtered_out(rem, filter) THEN Ret("ok", FALSE, <<>>)
  ELSE built(push_spans(pushed.b, text_spans(rem, filter)))

\* parse_log_line after the header grammar has been tried (lines 194-235).
parse_with_header(lln, cols, line, filter, h) ==
  IF h.matched /\ ~ts_conv_ok(h.dt) THEN Ret("err", FALSE, <<>>)
  ELSE parse_text(push_spans(header_builder(lln, cols, h),
                             IF h.matched THEN header_spans(h) ELSE <<>>),
                  remainder(line, h), filter)

\* parse_log_line, for arguments on which its recursion ends.
parse_log_line(lln, cols, line, filter) ==
  parse_with_header(lln, cols, line, filter, parse_header(line))

RECURSIVE scan(_, _, _, _, _)
RECURSIVE scanned(_, _, _, _, _, _)
\* query's loop over the lines of the file from logical line lln on
\* (lines 141-149): ok = FALSE is the Err of a line.
scan(todo, lln, cols, filter, rows) ==
  IF todo = <<>> THEN [ok |-> TRUE, rows |-> rows]
  ELSE scanned(parse_log_line(lln, cols, Head(todo), filter), Tail(todo), lln, cols,
               filter, rows)

scanned(ret, rest, lln, cols, filter, rows) ==
  IF ret.res # "ok" THEN [ok |-> FALSE, rows |-> rows]
  ELSE scan(rest, lln + 1, cols, filter, IF ret.some THEN rows \o ret.lines ELSE rows)

\* query(args) on a file that holds data and that no writer changes while
\* it is read: the display_lines of its response, or the Err of Regex::new
\* or of a line (ok = FALSE).
query(cols, filter, data) ==
  IF filter # None /\ ~regex_new_ok(filter[1])
    THEN [ok |-> FALSE, rows |-> <<>>]
    ELSE scan(reader_lines(data), 0, cols, filter, <<>>)

\* ------------------------------------------------------- the tail and the query
RECURSIVE TailRowsUpTo(_, _)
\* The rows of the `tail` notifications among the first n messages sent
\* that were computed from the g-th context, in the order sent.
TailRowsUpTo(n, g) ==
  IF n = 0 THEN <<>>
  ELSE TailRowsUpTo(n - 1, g)
         \o (IF out[n].kind = "tail" /\ t_by[n] = g THEN out[n].display_lines ELSE <<>>)

\* The context has taken the notification of the present length of a file
\* that was only appended to and ends in a line feed; nothing is pending.
TailSettled ==
  /\ ctx # None /\ ctx[1].file = LogPath
  /\ fs_exists /\ fs_truncs = 0
  /\ fs_data # <<>> /\ fs_data[Len(fs_data)] = "LF"
  /\ s_pc = "select" /\ w_modify = 0
  /\ chan.value = Some(ByteLen(fs_data)) /\ ~chan.changed

\* C24: once a context has read an appended-to file up to its present end,
\* which is a line feed, the rows of all its `tail` notifications, in
\* order, are the display_lines of a query of the file with the context's
\* cols and filter, when no line of the file fails.
TailEqualsQuery ==
  (TailSettled /\ query(ctx[1].cols, ctx[1].filter, fs_data).ok)
    => TailRowsUpTo(Len(out), ContextAt(Len(out)))
         = query(ctx[1].cols, ctx[1].filter, fs_data).rows

\* ---------------------------------------------------------- the stale cache
\* C25: a query answered from the cache gets the total and the rows a scan
\* of the file as it is at the time of the answer returns (q_hist holds the
\* file's bytes at that time), when no line of the file fails.
CacheAnswerIsFresh ==
  \A i \in 1..Len(q_hist) :
    LET req == q_hist[i].req
        fresh == query(req.cols, req.filter, q_hist[i].data)
        full == QueryResponse(Len(fresh.rows), fresh.rows, 0)
        to == IF req.to = None THEN Len(fresh.rows) ELSE req.to[1]
    IN (~q_hist[i].scanned /\ fresh.ok)
         => q_out[i].result[1] = RowsBetween(full, req.from, to)

\* ------------------------------------------------------ the first notification
RECURSIVE CompleteRows(_, _, _, _)
\* The rows of the terminated lines of a file from the n-th line back to
\* the first, for the lines parse_log_line returns rows for.
CompleteRows(data, n, cols, filter) ==
  IF n = 0 THEN <<>>
  ELSE CompleteRows(data, n - 1, cols, filter)
         \o (LET ret == parse_log_line(n - 1, cols, TerminatedLines(data)[n], filter)
             IN IF ret.res = "ok" /\ ret.some THEN ret.lines ELSE <<>>)

\* The g-th context has sent a `tail`.
TailSentBy(g) == \E i \in 1..Len(out) : out[i].kind = "tail" /\ t_by[i] = g

\* The session sends the first `tail` of its context, and the file has not
\* been modified since the context's request was acknowledged.
FirstTailSent ==
  /\ Len(out') = Len(out) + 1 /\ out'[Len(out')].kind = "tail"
  /\ ~TailSentBy(ContextAt(Len(out)))
  /\ t_quiet

\* C26: once there is a context, the session gets to where the context
\* then current has sent a `tail`, so a context that no request replaces
\* sends one; and the first `tail` of a context, sent with the file as it
\* was when the request was acknowledged, holds the rows of all terminated
\* lines of the file.
FirstTailHasAllLines ==
  /\ (ctx # None) ~> TailSentBy(ContextAt(Len(out)))
  /\ [][FirstTailSent
          => out'[Len(out')].display_lines
               = CompleteRows(fs_data, Len(TerminatedLines(fs_data)),
                              ctx[1].cols, ctx[1].filter)]_vars

====
